---- MODULE Spec2Model ----
(***************************************************************************)
(* Model of scripts/09_extract_repo_features_and_commits.py: the batch     *)
(* driver process_csv, the per-repository orchestrator process_repo, the   *)
(* snapshot helpers save_snapshot_json / get_missing, the fetchers, the    *)
(* poller, the commit classification and the derivation.                   *)
(*                                                                         *)
(* Spec       the batch driver and the orchestrator over the snapshot      *)
(*            files                                                        *)
(* LiveSpec   Spec with weak fairness on the program's own steps           *)
(* PageSpec   one offset-paginated fetch followed by its snapshot write    *)
(* CursorSpec one cursor-paginated fetch (fetch_stars_with_dates,          *)
(*            fetch_issues)                                                *)
(* PollSpec   fetch_weekly_commit_activity, its save and the blocks of     *)
(*            process_repo behind it                                       *)
(* TypeSpec   infer_commit_type on one message and file list               *)
(* DeriveSpec the derivation of first_commits_by_author                    *)
(* ScanSpec   get_missing on one repository directory                      *)
(* ProbeSpec  one content-probe fetcher followed by its snapshot write     *)
(* InfoSpec   fetch_repo_general_info with its commits pagination         *)
(* ParseSpec  parse_owner_repo on one row of the input table              *)
(* FetchSpec  one fetch of any of the three request loops, with weak      *)
(*            fairness on its steps                                       *)
(***************************************************************************)
EXTENDS Integers, Sequences, FiniteSets, TLC

(***************************************************************************)
(* Bounds of the model.                                                    *)
(***************************************************************************)
\* environment events in a behaviour: non-success responses of the remote,
\* faults raised inside fetchers, interruptions of the process, and files
\* deleted or corrupted between runs
MaxEvents == 1
\* largest value of the wall clock (utc_now_iso, one-second resolution)
MaxClock == 3
\* number of commit records the remote repository holds
RemoteCommits == 1
\* PageSpec: number of pages whose response the remote is given explicitly
MaxPages == 3

(***************************************************************************)
(* The resource catalog and the order in which process_repo handles it.    *)
(***************************************************************************)
REQUIRED_FILES ==
    << "general_info.json", "commits.json", "forks.json", "stars.json",
       "contributors.json", "pull_requests.json", "issues.json",
       "license.json", "readme.json", "contributing.json", "languages.json",
       "weekly_commit_activity.json", "code_of_conduct.json",
       "issue_template.json", "pr_template.json", "labels.json",
       "maintainers.json", "owner_info.json", "first_commits_by_author.json" >>

\* variant: the body of process_repo has no block for labels.json
ProcessOrder_NoLabels ==
    << "general_info.json", "readme.json", "contributing.json",
       "code_of_conduct.json", "issue_template.json", "pr_template.json",
       "commits.json", "forks.json", "stars.json",
       "contributors.json", "pull_requests.json", "issues.json",
       "license.json", "languages.json", "weekly_commit_activity.json",
       "maintainers.json", "owner_info.json", "first_commits_by_author.json" >>

\* the order of the "if ... in missing" blocks in the body of process_repo
ProcessOrder ==
    << "general_info.json", "readme.json", "contributing.json",
       "code_of_conduct.json", "issue_template.json", "pr_template.json",
       "labels.json", "commits.json", "forks.json", "stars.json",
       "contributors.json", "pull_requests.json", "issues.json",
       "license.json", "languages.json", "weekly_commit_activity.json",
       "maintainers.json", "owner_info.json", "first_commits_by_author.json" >>

Resources == { REQUIRED_FILES[n] : n \in 1..Len(REQUIRED_FILES) }

GeneralInfo == "general_info.json"
Commits == "commits.json"
FirstCommits == "first_commits_by_author.json"
RawResources == Resources \ {FirstCommits}

\* the URL (REST) or connection (GraphQL) a fetcher requests first
Endpoint(R) ==
    CASE R = "general_info.json" -> "/repos/{owner}/{repo}"
      [] R = "readme.json" -> "/repos/{owner}/{repo}/readme"
      [] R = "contributing.json" -> "/repos/{owner}/{repo}/contents/<CONTRIBUTING*>"
      [] R = "code_of_conduct.json" -> "/repos/{owner}/{repo}/contents/<CODE_OF_CONDUCT*>"
      [] R = "issue_template.json" -> "/repos/{owner}/{repo}/contents/.github/ISSUE_TEMPLATE"
      [] R = "pr_template.json" -> "/repos/{owner}/{repo}/contents/<PR_TEMPLATE*>"
      [] R = "labels.json" -> "/repos/{owner}/{repo}/labels"
      [] R = "commits.json" -> "/repos/{owner}/{repo}/commits"
      [] R = "forks.json" -> "/repos/{owner}/{repo}/forks"
      [] R = "stars.json" -> "graphql:repository.stargazers"
      [] R = "contributors.json" -> "/repos/{owner}/{repo}/contributors"
      [] R = "pull_requests.json" -> "/repos/{owner}/{repo}/pulls"
      [] R = "issues.json" -> "graphql:repository.issues"
      [] R = "license.json" -> "/repos/{owner}/{repo}/license"
      [] R = "languages.json" -> "/repos/{owner}/{repo}/languages"
      [] R = "weekly_commit_activity.json" -> "/repos/{owner}/{repo}/stats/commit_activity"
      [] R = "maintainers.json" -> "/repos/{owner}/{repo}/collaborators"
      [] R = "owner_info.json" -> "/users/{owner}"
      [] OTHER -> "none"

\* the endpoints the fetcher of R requests when nothing stops it early:
\* fetch_repo_general_info also runs fetch_commits, the derivation requests none
FetcherRequests(R) ==
    IF R = "general_info.json"
    THEN {Endpoint("general_info.json"), Endpoint("commits.json")}
    ELSE IF R = "first_commits_by_author.json" THEN {}
    ELSE {Endpoint(R)}

\* what a fetcher returns when its (first) request gets a non-success answer
NotFoundValue(R) ==
    CASE R \in {"commits.json", "forks.json", "stars.json", "contributors.json",
                "pull_requests.json", "issues.json",
                "weekly_commit_activity.json", "maintainers.json"} -> "[]"
      [] R = "readme.json" -> "{download_url: null, path: null, name: null}"
      [] R = "license.json" -> "{spdx_id: null, name: null}"
      [] R = "languages.json" -> "{}"
      [] R = "contributing.json" -> "{found: false}"
      [] R = "code_of_conduct.json" -> "{found: false}"
      [] R = "issue_template.json" -> "{has_issue_template: false, files: []}"
      [] R = "pr_template.json" -> "{has_pr_template: false}"
      [] R = "labels.json" -> "{all_labels: [], has_newcomer_labels: false}"
      [] R = "owner_info.json" -> "null"
      [] OTHER -> "none"

(***************************************************************************)
(* The batch input: each row is a repository identifier parse_owner_repo   *)
(* extracts, or NoRepo when it extracts none.                              *)
(***************************************************************************)
NoRepo == "(None, None)"
Repos == {"o1/r1", "o2/r2", "o3/r3"}
InputRows ==
    { << "o1/r1", "o2/r2", "o3/r3" >>,
      << NoRepo, "o1/r1" >> }

(***************************************************************************)
(* Files.  A file is absent, empty (size 0), a strict prefix of an         *)
(* envelope ("partial"), other unparsable bytes ("corrupt") or a complete  *)
(* snapshot envelope {"_meta": {"fetched_at": ...}, "data": ...}.          *)
(***************************************************************************)
Absent == [content |-> "absent", body |-> "-", count |-> 0, fetched_at |-> 0]
Empty == [content |-> "empty", body |-> "-", count |-> 0, fetched_at |-> 0]
Partial == [content |-> "partial", body |-> "-", count |-> 0, fetched_at |-> 0]
Corrupt == [content |-> "corrupt", body |-> "-", count |-> 0, fetched_at |-> 0]

VARIABLES
    rows,       \* the rows of the input CSV
    files,      \* files[repo][resource]: the snapshot store on disk
    clock,      \* the wall clock read by utc_now_iso
    phase,      \* "idle" | "loop" | "repo" | "ret" | "done" | "killed"
    i,          \* process_csv: index of the current row
    ok,         \* process_csv: the processed counter
    skipped,    \* process_csv: the skipped counter
    total,      \* process_csv: len(rows)
    missing,    \* process_repo: the list get_missing returned
    cur,        \* process_repo: the resource block about to run
    st,         \* orchestrator state of the current invocation
    reqs,       \* endpoints requested by the current invocation
    written,    \* files rewritten by the current invocation
    snap0,      \* the repository's files when the current invocation started
    outcome,    \* outcome[n]: how row n ended in the current batch run
    lastRun,    \* lastRun[repo]: how the latest earlier invocation ended
    nEvents,    \* environment events so far
    \* one offset-paginated fetch (PageSpec)
    fetcher,    \* the fetcher that runs
    remote,     \* remote[n]: the response to the request for page n
    page,       \* the fetcher's page counter
    out,        \* the fetcher's accumulated records
    reqlog,     \* the page numbers requested so far, in order
    pst,        \* "off" | "loop" | "returned" | "saved"
    pfile,      \* the snapshot file the block of process_repo writes
    \* further locals of the cursor fetchers and of the poller
    after,      \* fetch_stars_with_dates / fetch_issues: the cursor variable
    retries,    \* fetch_weekly_commit_activity: the retries parameter
    sleeps,     \* fetch_weekly_commit_activity: the time.sleep calls so far
    \* the derivation of first_commits_by_author
    commits,        \* the list read from commits.json
    first_commits,  \* the list the derivation builds
    \* one call of infer_commit_type
    message,        \* its message argument
    files_changed,  \* its files argument
    commit_type,    \* its result
    \* one call of parse_owner_repo
    row,            \* its row argument
    parsed          \* the pair it returns

mvars == << rows, files, clock, phase, i, ok, skipped, total, missing, cur, st,
            reqs, written, snap0, outcome, lastRun, nEvents >>
pvars == << fetcher, remote, page, out, reqlog, pst, pfile >>
fvars == << after, retries, sleeps >>
dvars == << commits, first_commits >>
tvars == << message, files_changed, commit_type >>
\* the variables neither Spec nor PageSpec reads
rvars == << row, parsed >>
xvars == << fvars, dvars, tvars, rvars >>
vars == << mvars, pvars, xvars >>

(***************************************************************************)
(* Snapshot helpers.                                                       *)
(***************************************************************************)
\* variant: a clock that runs backwards
utc_now_iso_Backwards == MaxClock - clock

\* the wall clock read by utc_now_iso
utc_now_iso == clock

\* the envelope save_snapshot_json builds and dumps
Snapshot(body, count) ==
    [content |-> "snapshot", body |-> body, count |-> count,
     fetched_at |-> utc_now_iso]

\* json.load succeeds on a complete envelope and on any other well-formed
\* JSON text
load_json_ok(f) == f.content \in {"snapshot", "json"}

\* variant: a snapshot whose data is null counts as missing
IsMissing_NullData(f) ==
    \/ f.content = "absent"
    \/ f.content = "empty"
    \/ ~load_json_ok(f)
    \/ f.body = "null"

\* variant: the parse check is left out
IsMissing_NoParse(f) ==
    \/ f.content = "absent"
    \/ f.content = "empty"

\* variant: only a snapshot envelope counts as present
IsMissing_NotEnvelope(f) ==
    \/ f.content = "absent"
    \/ f.content = "empty"
    \/ f.content # "snapshot"

\* get_missing: absent, empty or unparsable files are missing
IsMissing(f) ==
    \/ f.content = "absent"
    \/ f.content = "empty"
    \/ ~load_json_ok(f)

get_missing(dir) == { R \in Resources : IsMissing(dir[R]) }

Pos(R) == CHOOSE n \in 1..Len(ProcessOrder) : ProcessOrder[n] = R

\* variant: the blocks run whether or not their file is missing
NextBlock_EveryBlock(n, miss) ==
    IF n < Len(ProcessOrder) THEN ProcessOrder[n + 1] ELSE "end"

\* the next "if R in missing" block of process_repo whose test is true,
\* strictly after position n; "end" when control reaches the end of the body
NextBlock(n, miss) ==
    LET later == { m \in (n+1)..Len(ProcessOrder) : ProcessOrder[m] \in miss }
    IN IF later = {} THEN "end"
       ELSE ProcessOrder[CHOOSE m \in later : \A k \in later : m <= k]

\* the derivation reads the commits snapshot; its result is a function of it
DeriveFirstCommits(commitsFile) ==
    [body |-> "first_commits", count |-> commitsFile.count]

(***************************************************************************)
(* Spec: process_csv and process_repo.                                     *)
(***************************************************************************)
NotRunning == phase \in {"idle", "done", "killed"}

NoPageFile == [content |-> "absent", data |-> << >>, fetched_at |-> 0]

\* no paginated fetch is being followed
PageOff ==
    /\ fetcher = "none" /\ remote = << >> /\ page = 0 /\ out = << >>
    /\ reqlog = << >> /\ pst = "off" /\ pfile = NoPageFile

\* no cursor fetch and no poll is being followed
FetchOff == after = "null" /\ retries = 0 /\ sleeps = << >>

\* no derivation is being followed
DeriveOff == commits = << >> /\ first_commits = << >>

\* no call of infer_commit_type is being followed
TypeOff == message = << >> /\ files_changed = << >> /\ commit_type = "none"

\* no call of parse_owner_repo is being followed
ParseOff ==
    /\ row = [full_name |-> << >>, html_url |-> << >>, url |-> << >>]
    /\ parsed = [state |-> "off", owner |-> << >>, repo |-> << >>]

\* process_csv has not been started
MainOff ==
    /\ rows = << >>
    /\ files = [r \in Repos |-> [R \in Resources |-> Absent]]
    /\ clock = 0
    /\ phase = "idle"
    /\ i = 0 /\ ok = 0 /\ skipped = 0 /\ total = 0
    /\ missing = {} /\ cur = "end" /\ st = "Idle"
    /\ reqs = {} /\ written = {}
    /\ snap0 = [R \in Resources |-> Absent]
    /\ outcome = << >>
    /\ lastRun = [r \in Repos |-> "none"]
    /\ nEvents = 0

Init ==
    /\ PageOff /\ FetchOff /\ DeriveOff /\ TypeOff /\ ParseOff
    /\ rows \in InputRows
    /\ files = [r \in Repos |-> [R \in Resources |-> Absent]]
    /\ clock = 0
    /\ phase = "idle"
    /\ i = 0 /\ ok = 0 /\ skipped = 0 /\ total = 0
    /\ missing = {} /\ cur = "end" /\ st = "Idle"
    /\ reqs = {} /\ written = {}
    /\ snap0 = [R \in Resources |-> Absent]
    /\ outcome = << >>
    /\ lastRun = [r \in Repos |-> "none"]
    /\ nEvents = 0

\* process_csv up to the loop: read the rows, zero the counters; the wall
\* clock has moved on since the previous run
StartBatch ==
    /\ NotRunning
    /\ total' = Len(rows)
    /\ ok' = 0 /\ skipped' = 0 /\ i' = 1
    /\ phase' = "loop"
    /\ outcome' = [n \in 1..Len(rows) |-> "none"]
    /\ st' = "Idle" /\ cur' = "end" /\ missing' = {}
    /\ reqs' = {} /\ written' = {}
    /\ clock' = IF clock < MaxClock THEN clock + 1 ELSE clock
    /\ UNCHANGED << rows, files, snap0, lastRun, nEvents >>
    /\ UNCHANGED << pvars, xvars >>

\* variant: the row is passed over without being counted
SkipRow_NotCounted ==
    /\ phase = "loop" /\ i <= total
    /\ rows[i] = NoRepo
    /\ outcome' = [outcome EXCEPT ![i] = "Skipped"]
    /\ i' = i + 1
    /\ UNCHANGED << rows, files, clock, phase, ok, skipped, total, missing, cur, st,
                    reqs, written, snap0, lastRun,
                    nEvents >>
    /\ UNCHANGED << pvars, xvars >>

\* process_csv: a row parse_owner_repo extracts nothing from
SkipRow ==
    /\ phase = "loop" /\ i <= total
    /\ rows[i] = NoRepo
    /\ skipped' = skipped + 1
    /\ outcome' = [outcome EXCEPT ![i] = "Skipped"]
    /\ i' = i + 1
    /\ UNCHANGED << rows, files, clock, phase, ok, total, missing, cur, st,
                    reqs, written, snap0, lastRun,
                    nEvents >>
    /\ UNCHANGED << pvars, xvars >>

\* control after the block of resource R has run to its end
Advance(R, miss) ==
    LET nb == NextBlock(Pos(R), miss)
    IN /\ cur' = nb
       /\ st' = IF nb = "end" THEN "Complete"
                ELSE IF nb = FirstCommits THEN "Derived" ELSE "FetchingRequired"
       /\ phase' = IF nb = "end" THEN "ret" ELSE "repo"

\* save_snapshot_json(data, <repo_dir>/R, meta), run to its end
save_snapshot_json(r, R, body, count) ==
    /\ files' = [files EXCEPT ![r][R] = Snapshot(body, count)]
    /\ written' = written \cup {R}

\* process_repo up to the first block: makedirs, get_missing, early return
Scan ==
    /\ phase = "loop" /\ i <= total
    /\ rows[i] # NoRepo
    /\ LET r == rows[i]
           miss == get_missing(files[r])
           nb == NextBlock(0, miss)
       IN /\ missing' = miss
          /\ snap0' = files[r]
          /\ cur' = nb
          /\ st' = IF miss = {} THEN "Complete"
                   ELSE IF nb = FirstCommits THEN "Derived" ELSE "FetchingRequired"
          /\ phase' = IF miss = {} THEN "ret" ELSE "repo"
    /\ reqs' = {} /\ written' = {}
    /\ UNCHANGED << rows, files, clock, i, ok, skipped, total, outcome, lastRun,
                    nEvents >>
    /\ UNCHANGED << pvars, xvars >>

\* variant: the snapshot is saved before the "info is None" test
GeneralInfoLookupFails_SaveFirst ==
    /\ phase = "repo" /\ cur = GeneralInfo
    /\ nEvents < MaxEvents
    /\ nEvents' = nEvents + 1
    /\ reqs' = reqs \cup {Endpoint(GeneralInfo)}
    /\ save_snapshot_json(rows[i], GeneralInfo, "null", 0)
    /\ st' = "Failed" /\ phase' = "ret"
    /\ UNCHANGED << rows, clock, i, ok, skipped, total, missing, cur,
                    snap0, outcome, lastRun >>
    /\ UNCHANGED << pvars, xvars >>

\* block 1, fetch_repo_general_info returns None: the repository lookup failed
GeneralInfoLookupFails ==
    /\ phase = "repo" /\ cur = GeneralInfo
    /\ nEvents < MaxEvents
    /\ nEvents' = nEvents + 1
    /\ reqs' = reqs \cup {Endpoint(GeneralInfo)}
    /\ st' = "Failed" /\ phase' = "ret"
    /\ UNCHANGED << rows, files, clock, i, ok, skipped, total, missing, cur, written,
                    snap0, outcome, lastRun >>
    /\ UNCHANGED << pvars, xvars >>

\* block 1, the lookup succeeds: fetch_commits runs to its end inside
\* fetch_repo_general_info (c records; fewer than the remote holds when one of
\* its page requests got a non-success answer), then the snapshot is saved
GeneralInfoFetched ==
    /\ phase = "repo" /\ cur = GeneralInfo
    /\ \E c \in 0..RemoteCommits :
        /\ \/ c = RemoteCommits /\ nEvents' = nEvents
           \/ c < RemoteCommits /\ nEvents < MaxEvents /\ nEvents' = nEvents + 1
        /\ save_snapshot_json(rows[i], GeneralInfo, "info", c)
    /\ reqs' = reqs \cup FetcherRequests(GeneralInfo)
    /\ Advance(GeneralInfo, missing)
    /\ UNCHANGED << rows, clock, i, ok, skipped, total, missing,
                    snap0, outcome, lastRun >>
    /\ UNCHANGED << pvars, xvars >>

\* a raw block other than general_info, every request answered with success
RawFetched ==
    /\ phase = "repo" /\ cur \in RawResources \ {GeneralInfo}
    /\ IF cur = Commits
       THEN save_snapshot_json(rows[i], cur, "commits", RemoteCommits)
       ELSE save_snapshot_json(rows[i], cur, "payload", 0)
    /\ reqs' = reqs \cup FetcherRequests(cur)
    /\ Advance(cur, missing)
    /\ UNCHANGED << rows, clock, i, ok, skipped, total, missing,
                    snap0, outcome, lastRun, nEvents >>
    /\ UNCHANGED << pvars, xvars >>

\* a raw block other than general_info whose request got a non-success answer:
\* the fetcher returns its empty / not-found / truncated value, which is saved
RawFetchDegraded ==
    /\ phase = "repo" /\ cur \in RawResources \ {GeneralInfo}
    /\ nEvents < MaxEvents
    /\ nEvents' = nEvents + 1
    /\ IF cur = Commits
       THEN \E c \in 0..(RemoteCommits - 1) :
                save_snapshot_json(rows[i], cur, "commits", c)
       ELSE save_snapshot_json(rows[i], cur, NotFoundValue(cur), 0)
    /\ reqs' = reqs \cup FetcherRequests(cur)
    /\ Advance(cur, missing)
    /\ UNCHANGED << rows, clock, i, ok, skipped, total, missing,
                    snap0, outcome, lastRun >>
    /\ UNCHANGED << pvars, xvars >>

\* a fault raised inside a fetcher (requests.get / r.json() raising, a payload
\* without the expected keys): nothing in process_repo catches it
FetcherRaises ==
    /\ phase = "repo" /\ cur \in RawResources
    /\ nEvents < MaxEvents
    /\ nEvents' = nEvents + 1
    /\ reqs' = reqs \cup {Endpoint(cur)}
    /\ st' = "Raised" /\ phase' = "ret"
    /\ UNCHANGED << rows, files, clock, i, ok, skipped, total, missing, cur, written,
                    snap0, outcome, lastRun >>
    /\ UNCHANGED << pvars, xvars >>

\* block 8: first_commits_by_author derived from commits.json
DeriveBlock ==
    /\ phase = "repo" /\ cur = FirstCommits
    /\ LET r == rows[i]
           d == DeriveFirstCommits(files[r][Commits])
       IN IF load_json_ok(files[r][Commits])
          THEN /\ save_snapshot_json(r, FirstCommits, d.body, d.count)
               /\ Advance(FirstCommits, missing)
          ELSE /\ st' = "Raised" /\ phase' = "ret"
               /\ UNCHANGED << files, written, cur >>
    /\ UNCHANGED << rows, clock, i, ok, skipped, total, missing, reqs,
                    snap0, outcome, lastRun, nEvents >>
    /\ UNCHANGED << pvars, xvars >>

\* variant: a repository whose processing failed or raised is tried again
Return_RetryFailed ==
    /\ phase = "ret"
    /\ ok' = IF st = "Raised" THEN ok ELSE ok + 1
    /\ outcome' = [outcome EXCEPT ![i] = IF st \in {"Failed", "Raised"} THEN "none" ELSE st]
    /\ lastRun' = [lastRun EXCEPT ![rows[i]] = st]
    /\ i' = IF st \in {"Failed", "Raised"} THEN i ELSE i + 1
    /\ phase' = "loop"
    /\ UNCHANGED << rows, files, clock, skipped, total, missing, cur, st,
                    reqs, written, snap0, nEvents >>
    /\ UNCHANGED << pvars, xvars >>

\* variant: ok is incremented for an invocation that raised, too
Return_CountsRaised ==
    /\ phase = "ret"
    /\ ok' = ok + 1
    /\ outcome' = [outcome EXCEPT ![i] = st]
    /\ lastRun' = [lastRun EXCEPT ![rows[i]] = st]
    /\ i' = i + 1
    /\ phase' = "loop"
    /\ UNCHANGED << rows, files, clock, skipped, total, missing, cur, st,
                    reqs, written, snap0, nEvents >>
    /\ UNCHANGED << pvars, xvars >>

\* process_csv after process_repo returned or raised: ok += 1 in the try body,
\* "except Exception" prints and goes on
Return ==
    /\ phase = "ret"
    /\ ok' = IF st = "Raised" THEN ok ELSE ok + 1
    /\ outcome' = [outcome EXCEPT ![i] = st]
    /\ lastRun' = [lastRun EXCEPT ![rows[i]] = st]
    /\ i' = i + 1
    /\ phase' = "loop"
    /\ UNCHANGED << rows, files, clock, skipped, total, missing, cur, st,
                    reqs, written, snap0, nEvents >>
    /\ UNCHANGED << pvars, xvars >>

\* process_csv past the loop: the summary line
Summary ==
    /\ phase = "loop" /\ i > total
    /\ phase' = "done"
    /\ UNCHANGED << rows, files, clock, i, ok, skipped, total, missing, cur, st,
                    reqs, written, snap0, outcome, lastRun,
                    nEvents >>
    /\ UNCHANGED << pvars, xvars >>

\* KeyboardInterrupt / kill outside save_snapshot_json: process_csv re-raises
Interrupt ==
    /\ phase \in {"loop", "repo"}
    /\ nEvents < MaxEvents
    /\ nEvents' = nEvents + 1
    /\ phase' = "killed"
    /\ lastRun' = IF phase = "repo"
                  THEN [lastRun EXCEPT ![rows[i]] = "Interrupted"] ELSE lastRun
    /\ UNCHANGED << rows, files, clock, i, ok, skipped, total, missing, cur, st,
                    reqs, written, snap0, outcome >>
    /\ UNCHANGED << pvars, xvars >>

\* KeyboardInterrupt / kill inside save_snapshot_json of the current block:
\* after open(filename, "w") truncated the file, or part-way through json.dump
InterruptInSave ==
    /\ phase = "repo"
    /\ nEvents < MaxEvents
    /\ nEvents' = nEvents + 1
    /\ \E f \in {Empty, Partial} :
           files' = [files EXCEPT ![rows[i]][cur] = f]
    /\ reqs' = reqs \cup FetcherRequests(cur)
    /\ phase' = "killed"
    /\ lastRun' = [lastRun EXCEPT ![rows[i]] = "Interrupted"]
    /\ UNCHANGED << rows, clock, i, ok, skipped, total, missing, cur, st,
                    written, snap0, outcome >>
    /\ UNCHANGED << pvars, xvars >>

\* between runs the operator deletes one snapshot file
DeleteFile ==
    /\ NotRunning
    /\ nEvents < MaxEvents
    /\ nEvents' = nEvents + 1
    /\ \E r \in Repos, R \in Resources :
        /\ files[r][R].content # "absent"
        /\ files' = [files EXCEPT ![r][R] = Absent]
        /\ lastRun' = [lastRun EXCEPT ![r] = "changed"]
    /\ UNCHANGED << rows, clock, phase, i, ok, skipped, total, missing, cur, st,
                    reqs, written, snap0, outcome >>
    /\ UNCHANGED << pvars, xvars >>

\* between runs one snapshot file is corrupted: its bytes no longer parse
CorruptFile ==
    /\ NotRunning
    /\ nEvents < MaxEvents
    /\ nEvents' = nEvents + 1
    /\ \E r \in Repos, R \in Resources :
        /\ files[r][R].content = "snapshot"
        /\ files' = [files EXCEPT ![r][R] = Corrupt]
        /\ lastRun' = [lastRun EXCEPT ![r] = "changed"]
    /\ UNCHANGED << rows, clock, phase, i, ok, skipped, total, missing, cur, st,
                    reqs, written, snap0, outcome >>
    /\ UNCHANGED << pvars, xvars >>

Next ==
    \/ StartBatch
    \/ SkipRow
    \/ Scan
    \/ GeneralInfoLookupFails
    \/ GeneralInfoFetched
    \/ RawFetched
    \/ RawFetchDegraded
    \/ FetcherRaises
    \/ DeriveBlock
    \/ Return
    \/ Summary
    \/ Interrupt
    \/ InterruptInSave
    \/ DeleteFile
    \/ CorruptFile

Spec == Init /\ [][Next]_vars

(***************************************************************************)
(* PageSpec: one offset-paginated fetcher (fetch_commits, fetch_forks,      *)
(* fetch_contributors, fetch_pull_requests, fetch_maintainers) run against  *)
(* a remote, page by page, then the save of its block in process_repo.      *)
(***************************************************************************)
OffsetFetchers ==
    {"fetch_commits", "fetch_forks", "fetch_contributors",
     "fetch_pull_requests", "fetch_maintainers"}

\* raw records of the remote: an identity, the push permission (read by
\* fetch_maintainers alone) and the fields no fetcher keeps
RawRecords ==
    { [id |-> "a", push |-> TRUE, rest |-> "raw"],
      [id |-> "b", push |-> FALSE, rest |-> "raw"] }

\* the list bodies a page can carry
PageBodies ==
    { << >> } \cup
    { << x >> : x \in RawRecords } \cup
    { << x, y >> : x \in RawRecords, y \in RawRecords }

\* a response: status 200 with a list, status 200 with an object, or a
\* non-success status (whose body is an error object)
Responses ==
    { [status |-> 200, kind |-> "list", items |-> b] : b \in PageBodies } \cup
    { [status |-> 200, kind |-> "dict", items |-> << >>],
      [status |-> 404, kind |-> "dict", items |-> << >>] }

RECURSIVE SeqsUpTo(_, _)
SeqsUpTo(S, n) ==
    IF n = 0 THEN { << >> }
    ELSE LET shorter == SeqsUpTo(S, n - 1)
         IN shorter \cup { Append(q, x) : q \in { t \in shorter : Len(t) = n - 1 }, x \in S }

\* past the pages given explicitly the remote answers 200 with an empty list
ResponseAt(n) ==
    IF n <= Len(remote) THEN remote[n]
    ELSE [status |-> 200, kind |-> "list", items |-> << >>]

None == [kind |-> "none", items |-> << >>]

\* fetch_rest: the parsed body on status 200, None otherwise
fetch_rest(resp) ==
    IF resp.status = 200 THEN [kind |-> resp.kind, items |-> resp.items]
    ELSE None

\* the record a fetcher appends for a raw record; fetch_maintainers appends
\* nothing for a collaborator without push permission
NormalizeRecord(f, x) ==
    CASE f = "fetch_commits" -> << [sha |-> x.id] >>
      [] f = "fetch_forks" -> << [full_name |-> x.id] >>
      [] f = "fetch_contributors" -> << [login |-> x.id] >>
      [] f = "fetch_pull_requests" -> << [number |-> x.id] >>
      [] f = "fetch_maintainers" ->
            IF x.push THEN << [login |-> x.id, permissions |-> "push"] >> ELSE << >>

RECURSIVE Normalize(_, _)
Normalize(f, items) ==
    IF items = << >> THEN << >>
    ELSE NormalizeRecord(f, Head(items)) \o Normalize(f, Tail(items))

\* variant: a page shorter than two records is taken as the end of the data
LoopBreaks_ShortPage(r) ==
    \/ r.kind = "none"
    \/ r.kind # "list"
    \/ Len(r.items) < 2

\* the two break tests of the loop: "if not r" and
\* "if not isinstance(r, list) or len(r) == 0"
LoopBreaks(r) ==
    \/ r.kind = "none"
    \/ r.kind = "list" /\ r.items = << >>
    \/ r.kind # "list"
    \/ Len(r.items) = 0

\* variant: a failed request discards what was accumulated
LoopStep_DropOnFailure(f, acc, r) ==
    IF r.kind = "none" THEN [stop |-> TRUE, out |-> << >>]
    ELSE IF LoopBreaks(r) THEN [stop |-> TRUE, out |-> acc]
    ELSE [stop |-> FALSE, out |-> acc \o Normalize(f, r.items)]

\* one iteration of "while True": break, or append the page's records
LoopStep(f, acc, r) ==
    IF LoopBreaks(r) THEN [stop |-> TRUE, out |-> acc]
    ELSE [stop |-> FALSE, out |-> acc \o Normalize(f, r.items)]

PageInit ==
    /\ rows = << >>
    /\ files = [r \in Repos |-> [R \in Resources |-> Absent]]
    /\ clock = 0
    /\ phase = "idle"
    /\ i = 0 /\ ok = 0 /\ skipped = 0 /\ total = 0
    /\ missing = {} /\ cur = "end" /\ st = "Idle"
    /\ reqs = {} /\ written = {}
    /\ snap0 = [R \in Resources |-> Absent]
    /\ outcome = << >>
    /\ lastRun = [r \in Repos |-> "none"]
    /\ nEvents = 0
    /\ fetcher \in OffsetFetchers
    /\ remote \in SeqsUpTo(Responses, MaxPages)
    /\ page = 1 /\ out = << >> /\ reqlog = << >>
    /\ pst = "loop"
    /\ pfile = NoPageFile
    /\ FetchOff /\ DeriveOff /\ TypeOff /\ ParseOff

\* one iteration of the fetcher's loop: request page `page`, then break or
\* accumulate and increment the counter
RequestPage ==
    /\ pst = "loop"
    /\ LET step == LoopStep(fetcher, out, fetch_rest(ResponseAt(page)))
       IN /\ out' = step.out
          /\ page' = IF step.stop THEN page ELSE page + 1
          /\ pst' = IF step.stop THEN "returned" ELSE "loop"
    /\ reqlog' = Append(reqlog, page)
    /\ UNCHANGED << fetcher, remote, pfile >>
    /\ UNCHANGED << mvars, xvars >>

\* the fetcher returned `out`; its block of process_repo saves the snapshot
SavePage ==
    /\ pst = "returned"
    /\ pfile' = [content |-> "snapshot", data |-> out, fetched_at |-> utc_now_iso]
    /\ pst' = "saved"
    /\ UNCHANGED << fetcher, remote, page, out, reqlog >>
    /\ UNCHANGED << mvars, xvars >>

PageNext ==
    \/ RequestPage
    \/ SavePage

PageSpec == PageInit /\ [][PageNext]_vars

(***************************************************************************)
(* CursorSpec: one cursor-paginated fetcher (fetch_stars_with_dates,       *)
(* fetch_issues) run against a remote that answers each `after` cursor.    *)
(***************************************************************************)
\* queries one fetch may issue in the model (the code has no such limit)
MaxQueries == 3

CursorFetchers == {"fetch_stars_with_dates", "fetch_issues"}

\* "null" is the cursor None of the first query
Cursors == {"null", "c1", "c2"}

RawEdges ==
    { [id |-> "e1", rest |-> "raw"], [id |-> "e2", rest |-> "raw"] }

EdgeBodies ==
    { << >>,
      << [id |-> "e1", rest |-> "raw"] >>,
      << [id |-> "e2", rest |-> "raw"], [id |-> "e1", rest |-> "raw"] >> }

\* a response to the POST: status 200 without an errors field, status 200
\* with an errors field (and partial data), or a non-200 status
GqlResponses ==
    { [status |-> 200, errors |-> FALSE, edges |-> b, endCursor |-> c,
       hasNextPage |-> h] :
          b \in EdgeBodies, c \in Cursors \ {"null"}, h \in BOOLEAN } \cup
    { [status |-> 200, errors |-> TRUE,
       edges |-> << [id |-> "e1", rest |-> "raw"] >>,
       endCursor |-> "c1", hasNextPage |-> TRUE],
      [status |-> 502, errors |-> FALSE, edges |-> << >>,
       endCursor |-> "c1", hasNextPage |-> FALSE] }

GqlNone ==
    [kind |-> "none", edges |-> << >>, endCursor |-> "null", hasNextPage |-> FALSE]

\* variant: the errors field of a 200 response is not looked at
fetch_gql_IgnoreErrors(resp) ==
    IF resp.status = 200
    THEN [kind |-> "payload", edges |-> resp.edges,
          endCursor |-> resp.endCursor, hasNextPage |-> resp.hasNextPage]
    ELSE GqlNone

\* fetch_gql: the payload on status 200 without "errors", None otherwise
fetch_gql(resp) ==
    IF resp.status = 200
    THEN IF resp.errors THEN GqlNone
         ELSE [kind |-> "payload", edges |-> resp.edges,
               endCursor |-> resp.endCursor, hasNextPage |-> resp.hasNextPage]
    ELSE GqlNone

\* the record a cursor fetcher appends for an edge
NormalizeEdge(f, e) ==
    IF f = "fetch_stars_with_dates" THEN [user |-> e.id] ELSE [number |-> e.id]

RECURSIVE NormalizeEdges(_, _)
NormalizeEdges(f, edges) ==
    IF edges = << >> THEN << >>
    ELSE << NormalizeEdge(f, Head(edges)) >> \o NormalizeEdges(f, Tail(edges))

\* variant: hasNextPage is not looked at, the loop goes on from endCursor
CursorStep_IgnoresHasNextPage(f, acc, aft, data) ==
    IF data.kind = "none" THEN [stop |-> TRUE, out |-> acc, after |-> aft]
    ELSE [stop |-> FALSE, out |-> acc \o NormalizeEdges(f, data.edges),
          after |-> data.endCursor]

\* one iteration of "while True": break on None; else append the edges and
\* either move `after` to endCursor or break
CursorStep(f, acc, aft, data) ==
    IF data.kind = "none" THEN [stop |-> TRUE, out |-> acc, after |-> aft]
    ELSE LET o == acc \o NormalizeEdges(f, data.edges)
         IN IF data.hasNextPage
            THEN [stop |-> FALSE, out |-> o, after |-> data.endCursor]
            ELSE [stop |-> TRUE, out |-> o, after |-> aft]

CursorInit ==
    /\ MainOff /\ DeriveOff /\ TypeOff /\ ParseOff
    /\ fetcher \in CursorFetchers
    /\ remote \in [Cursors -> GqlResponses]
    /\ after = "null"
    /\ out = << >> /\ reqlog = << >>
    /\ pst = "loop"
    /\ page = 0 /\ pfile = NoPageFile
    /\ retries = 0 /\ sleeps = << >>

\* one iteration of the loop: the query with the current `after`
QueryPage ==
    /\ pst = "loop"
    /\ Len(reqlog) < MaxQueries
    /\ LET step == CursorStep(fetcher, out, after, fetch_gql(remote[after]))
       IN /\ out' = step.out
          /\ after' = step.after
          /\ pst' = IF step.stop THEN "returned" ELSE "loop"
    /\ reqlog' = Append(reqlog, after)
    /\ UNCHANGED << fetcher, remote, page, pfile, retries, sleeps >>
    /\ UNCHANGED << mvars, dvars, tvars, rvars >>

CursorNext == QueryPage

CursorSpec == CursorInit /\ [][CursorNext]_vars

(***************************************************************************)
(* PollSpec: the weekly_commit_activity block of process_repo for one      *)
(* repository, with fetch_weekly_commit_activity followed request by       *)
(* request, and the blocks after it.                                       *)
(***************************************************************************)
\* largest value of the `retries` parameter the model draws (default 6)
MaxRetries == 4

Weekly == "weekly_commit_activity.json"

\* the week buckets of a payload: a unix timestamp and a count
RawWeeks ==
    { [week |-> 0, total |-> 2], [week |-> 604800, total |-> 0] }

WeekBodies ==
    { << >>,
      << [week |-> 0, total |-> 2] >>,
      << [week |-> 0, total |-> 2], [week |-> 604800, total |-> 0] >> }

\* an answer of the stats endpoint: 200 with a list or with null, 202 while
\* the statistics are being computed, or another status
PollResponses ==
    { [status |-> 200, null |-> FALSE, items |-> b] : b \in WeekBodies } \cup
    { [status |-> 200, null |-> TRUE, items |-> << >>],
      [status |-> 202, null |-> TRUE, items |-> << >>],
      [status |-> 403, null |-> TRUE, items |-> << >>] }

\* datetime.utcfromtimestamp(ts).strftime("%Y-%m-%d")
WeekDate(ts) == IF ts = 0 THEN "1970-01-01" ELSE "1970-01-08"

RECURSIVE NormalizeWeeks(_)
NormalizeWeeks(items) ==
    IF items = << >> THEN << >>
    ELSE << [week |-> WeekDate(Head(items).week), total |-> Head(items).total] >>
         \o NormalizeWeeks(Tail(items))

\* variant: no wait after a 202 answer
PollStep_NoBackoff(attempt, n, r) ==
    IF r.status = 200
    THEN [stop |-> TRUE, out |-> NormalizeWeeks(IF r.null THEN << >> ELSE r.items),
          slept |-> << "REQUEST_SLEEP" >>]
    ELSE IF r.status = 202
    THEN [stop |-> attempt = n, out |-> << >>, slept |-> << "REQUEST_SLEEP" >>]
    ELSE [stop |-> TRUE, out |-> << >>, slept |-> << "REQUEST_SLEEP" >>]

\* variant: a status other than 200 is waited on and retried like a 202
PollStep_RetriesAnyStatus(attempt, n, r) ==
    IF r.status = 200
    THEN [stop |-> TRUE, out |-> NormalizeWeeks(IF r.null THEN << >> ELSE r.items),
          slept |-> << "REQUEST_SLEEP" >>]
    ELSE [stop |-> attempt = n, out |-> << >>,
          slept |-> << "REQUEST_SLEEP", "delay" >>]

\* the body of "for attempt in range(retries)" for the attempt-th request
\* (counted from 1) answered r, and the "return []" behind the loop
PollStep(attempt, n, r) ==
    IF r.status = 200
    THEN [stop |-> TRUE, out |-> NormalizeWeeks(IF r.null THEN << >> ELSE r.items),
          slept |-> << "REQUEST_SLEEP" >>]
    ELSE IF r.status = 202
    THEN [stop |-> attempt = n, out |-> << >>,
          slept |-> << "REQUEST_SLEEP", "delay" >>]
    ELSE [stop |-> TRUE, out |-> << >>, slept |-> << "REQUEST_SLEEP" >>]

\* the blocks of process_repo behind the weekly_commit_activity block
AfterWeekly == { R \in Resources : Pos(R) > Pos(Weekly) }

PollInit ==
    /\ DeriveOff /\ TypeOff /\ ParseOff
    /\ rows = << "o1/r1" >>
    /\ \E later \in SUBSET AfterWeekly :
          files = [r \in Repos |->
                     [R \in Resources |->
                        IF r = "o1/r1" /\ R \notin later \cup {Weekly}
                        THEN [content |-> "snapshot", body |-> "payload",
                              count |-> 0, fetched_at |-> 0]
                        ELSE Absent]]
    /\ clock = 1
    /\ phase = "repo"
    /\ i = 1 /\ ok = 0 /\ skipped = 0 /\ total = 1
    /\ missing = get_missing(files["o1/r1"])
    /\ cur = Weekly /\ st = "FetchingRequired"
    /\ reqs = {} /\ written = {}
    /\ snap0 = files["o1/r1"]
    /\ outcome = << "none" >>
    /\ lastRun = [r \in Repos |-> "none"]
    /\ nEvents = 0
    /\ fetcher = "fetch_weekly_commit_activity"
    /\ retries \in 1..MaxRetries
    /\ remote \in [1..MaxRetries -> PollResponses]
    /\ page = 0 /\ out = << >> /\ reqlog = << >> /\ sleeps = << >>
    /\ pst = "loop" /\ pfile = NoPageFile
    /\ after = "null"

\* one pass of the loop of fetch_weekly_commit_activity
PollRequest ==
    /\ phase = "repo" /\ cur = Weekly
    /\ pst = "loop"
    /\ Len(reqlog) < retries
    /\ LET attempt == Len(reqlog) + 1
           step == PollStep(attempt, retries, remote[attempt])
       IN /\ out' = step.out
          /\ sleeps' = sleeps \o step.slept
          /\ pst' = IF step.stop THEN "returned" ELSE "loop"
    /\ reqlog' = Append(reqlog, Endpoint(Weekly))
    /\ UNCHANGED << fetcher, remote, page, pfile, after, retries >>
    /\ UNCHANGED << mvars, dvars, tvars, rvars >>

\* process_repo saves what the poller returned and goes to the next block
PollSave ==
    /\ phase = "repo" /\ cur = Weekly
    /\ pst = "returned"
    /\ save_snapshot_json(rows[i], Weekly,
                          IF out = << >> THEN NotFoundValue(Weekly) ELSE "payload",
                          Len(out))
    /\ pfile' = [content |-> "snapshot", data |-> out, fetched_at |-> utc_now_iso]
    /\ pst' = "saved"
    /\ reqs' = reqs \cup {Endpoint(Weekly)}
    /\ Advance(Weekly, missing)
    /\ UNCHANGED << rows, clock, i, ok, skipped, total, missing,
                    snap0, outcome, lastRun, nEvents >>
    /\ UNCHANGED << fetcher, remote, page, out, reqlog, xvars >>

PollNext ==
    \/ PollRequest
    \/ PollSave
    \/ (cur # Weekly /\ RawFetched)
    \/ DeriveBlock

PollSpec == PollInit /\ [][PollNext]_vars

(***************************************************************************)
(* TypeSpec: infer_commit_type applied to one message and one list of      *)
(* changed files.  Texts are sequences of characters, so that `kw in msg`, *)
(* endswith and startswith are computed as substring, suffix and prefix.   *)
(***************************************************************************)

\* the keywords of the CI/CD test: "ci:", "github actions", "workflow", ".github", "pytest", "coverage"
CI_KEYWORDS ==
    << << "c", "i", ":" >>,
       << "g", "i", "t", "h", "u", "b", " ", "a", "c", "t", "i", "o", "n", "s" >>,
       << "w", "o", "r", "k", "f", "l", "o", "w" >>,
       << ".", "g", "i", "t", "h", "u", "b" >>,
       << "p", "y", "t", "e", "s", "t" >>,
       << "c", "o", "v", "e", "r", "a", "g", "e" >> >>

\* "doc:", "docs:", "readme", "documentation", "comment"
DOCS_KEYWORDS ==
    << << "d", "o", "c", ":" >>,
       << "d", "o", "c", "s", ":" >>,
       << "r", "e", "a", "d", "m", "e" >>,
       << "d", "o", "c", "u", "m", "e", "n", "t", "a", "t", "i", "o", "n" >>,
       << "c", "o", "m", "m", "e", "n", "t" >> >>

\* "test:", "tests:", "test_", "unittest", "pytest"
TEST_KEYWORDS ==
    << << "t", "e", "s", "t", ":" >>,
       << "t", "e", "s", "t", "s", ":" >>,
       << "t", "e", "s", "t", "_" >>,
       << "u", "n", "i", "t", "t", "e", "s", "t" >>,
       << "p", "y", "t", "e", "s", "t" >> >>

\* "config:", "configure", "setup.py", "setup.cfg", "pyproject.toml", "requirements"
CONFIG_KEYWORDS ==
    << << "c", "o", "n", "f", "i", "g", ":" >>,
       << "c", "o", "n", "f", "i", "g", "u", "r", "e" >>,
       << "s", "e", "t", "u", "p", ".", "p", "y" >>,
       << "s", "e", "t", "u", "p", ".", "c", "f", "g" >>,
       << "p", "y", "p", "r", "o", "j", "e", "c", "t", ".", "t", "o", "m", "l" >>,
       << "r", "e", "q", "u", "i", "r", "e", "m", "e", "n", "t", "s" >> >>

\* ".md", ".rst", ".txt", ".doc"
DOC_SUFFIXES ==
    << << ".", "m", "d" >>,
       << ".", "r", "s", "t" >>,
       << ".", "t", "x", "t" >>,
       << ".", "d", "o", "c" >> >>

\* ".test.py", "_test.py", "test_", "/tests/"
TEST_SUFFIXES ==
    << << ".", "t", "e", "s", "t", ".", "p", "y" >>,
       << "_", "t", "e", "s", "t", ".", "p", "y" >>,
       << "t", "e", "s", "t", "_" >>,
       << "/", "t", "e", "s", "t", "s", "/" >> >>

\* ".yml", ".yaml", ".cfg", ".conf", ".ini", ".toml", ".json", ".xml"
CONFIG_SUFFIXES ==
    << << ".", "y", "m", "l" >>,
       << ".", "y", "a", "m", "l" >>,
       << ".", "c", "f", "g" >>,
       << ".", "c", "o", "n", "f" >>,
       << ".", "i", "n", "i" >>,
       << ".", "t", "o", "m", "l" >>,
       << ".", "j", "s", "o", "n" >>,
       << ".", "x", "m", "l" >> >>

\* ".github/", "docker"
CI_PREFIXES ==
    << << ".", "g", "i", "t", "h", "u", "b", "/" >>,
       << "d", "o", "c", "k", "e", "r" >> >>

\* the text "docs: update ci workflow"
Msg_DocsCiWorkflow == << "d", "o", "c", "s", ":", " ", "u", "p", "d", "a", "t", "e", " ", "c", "i", " ", "w", "o", "r", "k", "f", "l", "o", "w" >>

\* the text "Docs: fix typo"
Msg_DocsUpper == << "D", "o", "c", "s", ":", " ", "f", "i", "x", " ", "t", "y", "p", "o" >>

\* the text "tests: cover readme parser"
Msg_ReadmeTests == << "t", "e", "s", "t", "s", ":", " ", "c", "o", "v", "e", "r", " ", "r", "e", "a", "d", "m", "e", " ", "p", "a", "r", "s", "e", "r" >>

\* the text "config: add test_ settings"
Msg_ConfigTest == << "c", "o", "n", "f", "i", "g", ":", " ", "a", "d", "d", " ", "t", "e", "s", "t", "_", " ", "s", "e", "t", "t", "i", "n", "g", "s" >>

\* the text "run pytest"
Msg_Pytest == << "r", "u", "n", " ", "p", "y", "t", "e", "s", "t" >>

\* the text "bump requirements"
Msg_Requirements == << "b", "u", "m", "p", " ", "r", "e", "q", "u", "i", "r", "e", "m", "e", "n", "t", "s" >>

\* the text "add unittest"
Msg_Unittest == << "a", "d", "d", " ", "u", "n", "i", "t", "t", "e", "s", "t" >>

\* the text "fix bug"
Msg_FixBug == << "f", "i", "x", " ", "b", "u", "g" >>

\* the text ""
Msg_Empty == <<  >>

\* the message None
Msg_None == << "<None>" >>

Messages ==
    { Msg_DocsCiWorkflow,
      Msg_DocsUpper,
      Msg_ReadmeTests,
      Msg_ConfigTest,
      Msg_Pytest,
      Msg_Requirements,
      Msg_Unittest,
      Msg_FixBug,
      Msg_Empty,
      Msg_None }

\* the file name "README.md"
File_Readme == << "R", "E", "A", "D", "M", "E", ".", "m", "d" >>

\* the file name "src/main.py"
File_Main == << "s", "r", "c", "/", "m", "a", "i", "n", ".", "p", "y" >>

\* the file name ".github/workflows/ci.yml"
File_Workflow == << ".", "g", "i", "t", "h", "u", "b", "/", "w", "o", "r", "k", "f", "l", "o", "w", "s", "/", "c", "i", ".", "y", "m", "l" >>

\* the file name ".github/CODEOWNERS"
File_Codeowners == << ".", "g", "i", "t", "h", "u", "b", "/", "C", "O", "D", "E", "O", "W", "N", "E", "R", "S" >>

\* the file name "Dockerfile"
File_Dockerfile == << "D", "o", "c", "k", "e", "r", "f", "i", "l", "e" >>

\* the file name "pkg/util_test.py"
File_UnitTest == << "p", "k", "g", "/", "u", "t", "i", "l", "_", "t", "e", "s", "t", ".", "p", "y" >>

\* the file name "src/tests/test_api.py"
File_TestsDir == << "s", "r", "c", "/", "t", "e", "s", "t", "s", "/", "t", "e", "s", "t", "_", "a", "p", "i", ".", "p", "y" >>

FileNames ==
    { File_Readme, File_Main, File_Workflow, File_Codeowners, File_Dockerfile,
      File_UnitTest, File_TestsDir }

\* str.lower on one character (the capitals that occur in the texts above)
LowerChar(c) ==
    CASE c = "A" -> "a"
      [] c = "C" -> "c"
      [] c = "D" -> "d"
      [] c = "E" -> "e"
      [] c = "M" -> "m"
      [] c = "N" -> "n"
      [] c = "O" -> "o"
      [] c = "R" -> "r"
      [] c = "S" -> "s"
      [] c = "W" -> "w"
      [] OTHER -> c

\* changed files one commit carries in the model
MaxFiles == 2

FileLists == UNION { [1..n -> FileNames] : n \in 0..MaxFiles }

\* str.lower
Lower(s) == [k \in 1..Len(s) |-> LowerChar(s[k])]

\* kw in s
Contains(s, kw) ==
    \E k \in 0..(Len(s) - Len(kw)) : SubSeq(s, k + 1, k + Len(kw)) = kw

\* any(kw in s for kw in kws)
AnyKeyword(s, kws) == \E n \in 1..Len(kws) : Contains(s, kws[n])

\* s.endswith(suf)
EndsWith(s, suf) ==
    Len(s) >= Len(suf) /\ SubSeq(s, Len(s) - Len(suf) + 1, Len(s)) = suf

\* s.endswith(tuple of suffixes)
EndsWithAny(s, sufs) == \E n \in 1..Len(sufs) : EndsWith(s, sufs[n])

\* s.startswith(pre)
StartsWith(s, pre) == Len(s) >= Len(pre) /\ SubSeq(s, 1, Len(pre)) = pre

\* the four tests the loop body makes on one (lower-cased) file name; "next"
\* when none returns
FileRule(filename) ==
    IF EndsWithAny(filename, DOC_SUFFIXES) THEN "docs"
    ELSE IF EndsWithAny(filename, TEST_SUFFIXES) THEN "test"
    ELSE IF EndsWithAny(filename, CONFIG_SUFFIXES) THEN "config"
    ELSE IF StartsWith(filename, CI_PREFIXES[1]) \/ StartsWith(filename, CI_PREFIXES[2])
    THEN "ci"
    ELSE "next"

RECURSIVE FilesLabel(_)
\* "for f in files": the first file a rule returns on decides; "code" behind
\* the loop and for an empty list
FilesLabel(fs) ==
    IF fs = << >> THEN "code"
    ELSE IF FileRule(Lower(Head(fs))) # "next" THEN FileRule(Lower(Head(fs)))
    ELSE FilesLabel(Tail(fs))

\* variant: the docs keywords are tested before the ci keywords
infer_commit_type_DocsFirst(msg, fs) ==
    LET msg_lower == Lower(IF msg = Msg_None THEN << >> ELSE msg)
    IN IF AnyKeyword(msg_lower, DOCS_KEYWORDS) THEN "docs"
       ELSE IF AnyKeyword(msg_lower, CI_KEYWORDS) THEN "ci"
       ELSE IF AnyKeyword(msg_lower, TEST_KEYWORDS) THEN "test"
       ELSE IF AnyKeyword(msg_lower, CONFIG_KEYWORDS) THEN "config"
       ELSE FilesLabel(fs)

\* variant: the changed files are looked at before the message
infer_commit_type_FilesFirst(msg, fs) ==
    LET msg_lower == Lower(IF msg = Msg_None THEN << >> ELSE msg)
    IN IF FilesLabel(fs) # "code" THEN FilesLabel(fs)
       ELSE IF AnyKeyword(msg_lower, CI_KEYWORDS) THEN "ci"
       ELSE IF AnyKeyword(msg_lower, DOCS_KEYWORDS) THEN "docs"
       ELSE IF AnyKeyword(msg_lower, TEST_KEYWORDS) THEN "test"
       ELSE IF AnyKeyword(msg_lower, CONFIG_KEYWORDS) THEN "config"
       ELSE "code"

\* infer_commit_type(message, files)
infer_commit_type(msg, fs) ==
    LET msg_lower == Lower(IF msg = Msg_None THEN << >> ELSE msg)
    IN IF AnyKeyword(msg_lower, CI_KEYWORDS) THEN "ci"
       ELSE IF AnyKeyword(msg_lower, DOCS_KEYWORDS) THEN "docs"
       ELSE IF AnyKeyword(msg_lower, TEST_KEYWORDS) THEN "test"
       ELSE IF AnyKeyword(msg_lower, CONFIG_KEYWORDS) THEN "config"
       ELSE FilesLabel(fs)

TypeInit ==
    /\ MainOff /\ PageOff /\ FetchOff /\ DeriveOff /\ ParseOff
    /\ message \in Messages
    /\ files_changed \in FileLists
    /\ commit_type = "none"

\* one call of infer_commit_type
Classify ==
    /\ commit_type = "none"
    /\ commit_type' = infer_commit_type(message, files_changed)
    /\ UNCHANGED << message, files_changed >>
    /\ UNCHANGED << mvars, pvars, fvars, dvars, rvars >>

TypeNext == Classify

TypeSpec == TypeInit /\ [][TypeNext]_vars

(***************************************************************************)
(* DeriveSpec: block 8 of process_repo, the derivation of                  *)
(* first_commits_by_author from the records of commits.json.  A record     *)
(* holds the keys fetch_commits writes; "null" is the JSON null.           *)
(***************************************************************************)
\* commit records the commits list holds in the model
MaxCommits == 3

\* the date strings of the model in the order of their strings: a date that
\* is not in ISO-8601 form, then three ISO-8601 dates
CommitDates == << "01/02/2020", "2020-01-01", "2020-02-01", "2020-03-01" >>

\* the position of a date string in the order of the strings
DateRank(d) == CHOOSE k \in 1..Len(CommitDates) : CommitDates[k] = d

\* (author_login, author) of a record: two logins, a commit without login
\* whose author name reads like the first login, a commit with neither
CommitAuthors ==
    { << "a", "Ann" >>, << "b", "Bob" >>, << "null", "a" >>, << "null", "null" >> }

\* the records fetch_commits can have written, without their sha
CommitRecords ==
    { [author_login |-> who[1], author |-> who[2], date |-> d,
       message |-> IF d = "2020-01-01" THEN Msg_DocsCiWorkflow
                   ELSE IF d = "2020-02-01" THEN Msg_FixBug ELSE Msg_None,
       files_changed |-> IF d = "2020-02-01" THEN << File_Readme >> ELSE << >>] :
         who \in CommitAuthors,
         d \in { CommitDates[k] : k \in 1..Len(CommitDates) } \cup {"null"} }

\* c.get("author_login") or c.get("author", "unknown"); the key "author" is
\* in every record fetch_commits writes, so the default is never taken
AuthorOf(c) == IF c.author_login # "null" THEN c.author_login ELSE c.author

RECURSIVE AuthorsInOrder(_, _)
\* the keys of commits_by_author in insertion order: `if author:` leaves
\* out the records with neither login nor name
AuthorsInOrder(cs, seen) ==
    IF cs = << >> THEN << >>
    ELSE LET a == AuthorOf(Head(cs))
         IN IF a = "null" \/ a \in seen THEN AuthorsInOrder(Tail(cs), seen)
            ELSE << a >> \o AuthorsInOrder(Tail(cs), seen \cup {a})

\* commits_by_author[a]
CommitsOf(cs, a) == SelectSeq(cs, LAMBDA c : AuthorOf(c) = a)

RECURSIVE InsertByDate(_, _)
\* c placed behind the records whose date is not greater (a stable sort)
InsertByDate(sorted, c) ==
    IF sorted = << >> THEN << c >>
    ELSE IF DateRank(Head(sorted).date) <= DateRank(c.date)
         THEN << Head(sorted) >> \o InsertByDate(Tail(sorted), c)
         ELSE << c >> \o sorted

RECURSIVE StableSort(_)
StableSort(g) ==
    IF g = << >> THEN << >>
    ELSE InsertByDate(StableSort(SubSeq(g, 1, Len(g) - 1)), g[Len(g)])

\* variant: the list is never sorted
SortedCommits_FetchOrder(g) == g

\* sorted(commits_list, key=date) inside try / bare except: comparing a null
\* date with another date raises TypeError and the list is left as fetched
SortedCommits(g) ==
    IF Len(g) >= 2 /\ \E k \in 1..Len(g) : g[k].date = "null"
    THEN g
    ELSE StableSort(g)

\* the record appended for author a (the additions and deletions totals are
\* left out)
FirstCommitRecord(a, first) ==
    [author |-> a, date |-> first.date, sha |-> first.sha,
     message |-> first.message,
     files_changed |-> Len(first.files_changed),
     commit_type |-> infer_commit_type(first.message, first.files_changed)]

\* the list saved as first_commits_by_author.json
FirstCommitsByAuthor(cs) ==
    LET authors == AuthorsInOrder(cs, {})
    IN [n \in 1..Len(authors) |->
          FirstCommitRecord(authors[n], SortedCommits(CommitsOf(cs, authors[n]))[1])]

DeriveInit ==
    /\ MainOff /\ FetchOff /\ TypeOff /\ ParseOff
    /\ fetcher = "none" /\ remote = << >> /\ page = 0 /\ out = << >>
    /\ reqlog = << >> /\ pfile = NoPageFile
    /\ pst = "derive"
    /\ \E n \in 0..MaxCommits :
          \E cs \in [1..n -> CommitRecords] :
             commits = [k \in 1..n |->
                          [author_login |-> cs[k].author_login,
                           author |-> cs[k].author, date |-> cs[k].date,
                           message |-> cs[k].message,
                           files_changed |-> cs[k].files_changed,
                           sha |-> k]]
    /\ first_commits = << >>

\* block 8 from the loaded commits to the list handed to save_snapshot_json
Derive ==
    /\ pst = "derive"
    /\ first_commits' = FirstCommitsByAuthor(commits)
    /\ pst' = "saved"
    /\ UNCHANGED << fetcher, remote, page, out, reqlog, pfile, commits >>
    /\ UNCHANGED << mvars, fvars, tvars, rvars >>

DeriveNext == Derive

DeriveSpec == DeriveInit /\ [][DeriveNext]_vars

(***************************************************************************)
(* ScanSpec: get_missing, as process_repo calls it, on one repository      *)
(* directory whose files are in any of the conditions a file can be in.    *)
(***************************************************************************)
\* files of the directory that differ from the rest of it
MaxOddFiles == 2

\* a snapshot written by an earlier run
Saved == [content |-> "snapshot", body |-> "payload", count |-> 0, fetched_at |-> 0]

\* a snapshot whose data is null
SavedNull == [content |-> "snapshot", body |-> "null", count |-> 0, fetched_at |-> 0]

\* well-formed JSON that is not a snapshot envelope, such as []
OtherJson == [content |-> "json", body |-> "[]", count |-> 0, fetched_at |-> 0]

FileConditions == { Absent, Empty, Partial, Corrupt, Saved, SavedNull, OtherJson }

RECURSIVE SubsetsUpTo(_, _)
\* the subsets of S with at most n elements
SubsetsUpTo(S, n) ==
    IF n = 0 THEN { {} }
    ELSE LET T == SubsetsUpTo(S, n - 1)
         IN T \cup { t \cup {x} : t \in T, x \in S }

ScanInit ==
    /\ PageOff /\ FetchOff /\ DeriveOff /\ TypeOff /\ ParseOff
    /\ rows = << "o1/r1" >>
    /\ \E base \in {Absent, Saved} :
         \E odd \in SubsetsUpTo(Resources, MaxOddFiles) :
           \E cond \in [odd -> FileConditions] :
              files = [r \in Repos |->
                         [R \in Resources |->
                            IF r # "o1/r1" THEN Absent
                            ELSE IF R \in odd THEN cond[R] ELSE base]]
    /\ clock = 1
    /\ phase = "loop"
    /\ i = 1 /\ ok = 0 /\ skipped = 0 /\ total = 1
    /\ missing = {} /\ cur = "end" /\ st = "Idle"
    /\ reqs = {} /\ written = {}
    /\ snap0 = [R \in Resources |-> Absent]
    /\ outcome = << "none" >>
    /\ lastRun = [r \in Repos |-> "none"]
    /\ nEvents = 0

ScanNext == Scan

ScanSpec == ScanInit /\ [][ScanNext]_vars

(***************************************************************************)
(* ProbeSpec: one content-probe fetcher (fetch_contributing,               *)
(* fetch_code_of_conduct, fetch_pr_template) run against a remote that     *)
(* answers each candidate path, and the save of what it returns.           *)
(***************************************************************************)
ProbeFetchers == {"fetch_contributing", "fetch_code_of_conduct", "fetch_pr_template"}

\* the `candidates` list of each fetcher
Candidates(f) ==
    CASE f = "fetch_contributing" ->
            << "CONTRIBUTING.md", ".github/CONTRIBUTING.md",
               "docs/CONTRIBUTING.md", "contributing.md" >>
      [] f = "fetch_code_of_conduct" ->
            << "CODE_OF_CONDUCT.md", ".github/CODE_OF_CONDUCT.md",
               "docs/CODE_OF_CONDUCT.md", "code-of-conduct.md",
               ".github/code-of-conduct.md" >>
      [] f = "fetch_pr_template" ->
            << ".github/PULL_REQUEST_TEMPLATE.md", "PULL_REQUEST_TEMPLATE.md",
               ".github/pull_request_template.md", "pull_request_template.md",
               ".github/PULL_REQUEST_TEMPLATE" >>

\* the path of url_dir in fetch_pr_template
TemplateDir == ".github/PULL_REQUEST_TEMPLATE"

\* the answers of the contents endpoint for a path: not found; a file object
\* with a download_url, whose raw content is then served (200) or not; an
\* object without download_url; a directory listing; an empty list
ContentResponses ==
    { [status |-> 404, kind |-> "dict", items |-> << >>],
      [status |-> 200, kind |-> "dict",
       items |-> << [download_url |-> "raw-url", raw_status |-> 200] >>],
      [status |-> 200, kind |-> "dict",
       items |-> << [download_url |-> "raw-url", raw_status |-> 500] >>],
      [status |-> 200, kind |-> "dict",
       items |-> << [download_url |-> "null", raw_status |-> 404] >>],
      [status |-> 200, kind |-> "list",
       items |-> << [download_url |-> "raw-url", raw_status |-> 200] >>],
      [status |-> 200, kind |-> "list", items |-> << >>] }

\* variant: any object resolves, with or without a download_url
Resolves_AnyObject(r) == r.kind = "dict" /\ r.items # << >>

\* r and isinstance(r, dict) and r.get("download_url")
Resolves(r) ==
    r.kind = "dict" /\ r.items # << >> /\ r.items[1].download_url # "null"

\* the value returned when nothing was found
ProbeNotFound(f) ==
    [found |-> FALSE, path |-> "null", download_url |-> "null",
     preview |-> IF f = "fetch_code_of_conduct" THEN "null" ELSE "-"]

\* the value returned for the candidate `path` answered with the object r;
\* fetch_code_of_conduct adds the preview its request of the raw content gave
ProbeFound(f, path, r) ==
    [found |-> TRUE, path |-> path, download_url |-> r.items[1].download_url,
     preview |-> IF f # "fetch_code_of_conduct" THEN "-"
                 ELSE IF r.items[1].raw_status = 200 THEN "text" ELSE "null"]

\* the value fetch_pr_template returns for a template directory
ProbeFoundDir ==
    [found |-> TRUE, path |-> ".github/PULL_REQUEST_TEMPLATE/",
     download_url |-> "null", preview |-> "-"]

ProbeInit ==
    /\ MainOff /\ FetchOff /\ DeriveOff /\ TypeOff /\ ParseOff
    /\ fetcher \in ProbeFetchers
    /\ remote \in [1..Len(Candidates(fetcher)) -> ContentResponses]
    /\ page = 1
    /\ out = ProbeNotFound(fetcher)
    /\ reqlog = << >>
    /\ pst = "loop"
    /\ pfile = NoPageFile

\* one iteration of "for path in candidates", with the return behind the
\* loop of fetch_contributing and fetch_code_of_conduct
ProbeCandidate ==
    /\ pst = "loop"
    /\ fetcher \in ProbeFetchers
    /\ LET path == Candidates(fetcher)[page]
           r == fetch_rest(remote[page])
       IN IF Resolves(r)
          THEN /\ out' = ProbeFound(fetcher, path, r)
               /\ reqlog' = reqlog \o << path >> \o
                               (IF fetcher = "fetch_code_of_conduct"
                                THEN << r.items[1].download_url >> ELSE << >>)
               /\ pst' = "returned"
               /\ page' = page
          ELSE /\ out' = ProbeNotFound(fetcher)
               /\ reqlog' = Append(reqlog, path)
               /\ pst' = IF page < Len(Candidates(fetcher)) THEN "loop"
                         ELSE IF fetcher = "fetch_pr_template" THEN "dir"
                         ELSE "returned"
               /\ page' = IF page < Len(Candidates(fetcher)) THEN page + 1 ELSE page
    /\ UNCHANGED << fetcher, remote, pfile >>
    /\ UNCHANGED << mvars, xvars >>

\* fetch_pr_template behind its loop: the request of url_dir, the path of
\* the last candidate again
ProbeDirectory ==
    /\ pst = "dir"
    /\ LET r == fetch_rest(remote[Len(Candidates(fetcher))])
       IN out' = IF r.kind = "list" /\ Len(r.items) > 0
                 THEN ProbeFoundDir ELSE ProbeNotFound(fetcher)
    /\ reqlog' = Append(reqlog, TemplateDir)
    /\ pst' = "returned"
    /\ UNCHANGED << fetcher, remote, page, pfile >>
    /\ UNCHANGED << mvars, xvars >>

ProbeNext ==
    \/ ProbeCandidate
    \/ ProbeDirectory
    \/ SavePage

ProbeSpec == ProbeInit /\ [][ProbeNext]_vars

(***************************************************************************)
(* InfoSpec: block 1 of process_repo for one repository, with              *)
(* fetch_repo_general_info followed from the repository lookup through     *)
(* the commits pagination it runs to the save of its value.                *)
(***************************************************************************)
\* variant: the count is taken without the pagination's records
commits_count_Zero(commits_list) == 0

\* len(commits) if isinstance(commits, list) else 0
commits_count(commits_list) == Len(commits_list)

InfoInit ==
    /\ FetchOff /\ DeriveOff /\ TypeOff /\ ParseOff
    /\ rows = << "o1/r1" >>
    /\ files = [r \in Repos |-> [R \in Resources |-> Absent]]
    /\ clock = 1
    /\ phase = "repo"
    /\ i = 1 /\ ok = 0 /\ skipped = 0 /\ total = 1
    /\ missing = Resources
    /\ cur = GeneralInfo /\ st = "FetchingRequired"
    /\ reqs = {} /\ written = {}
    /\ snap0 = [R \in Resources |-> Absent]
    /\ outcome = << "none" >>
    /\ lastRun = [r \in Repos |-> "none"]
    /\ nEvents = 0
    /\ fetcher = "fetch_commits"
    /\ remote \in SeqsUpTo(Responses, MaxPages)
    /\ page = 1 /\ out = << >> /\ reqlog = << >>
    /\ pst = "lookup"
    /\ pfile = NoPageFile

\* fetch_rest of the repository URL returns None: fetch_repo_general_info
\* returns None and process_repo returns
InfoLookupFails ==
    /\ pst = "lookup"
    /\ GeneralInfoLookupFails

\* the repository URL is answered with the repository object: fetch_commits
\* is called
InfoLookupSucceeds ==
    /\ pst = "lookup"
    /\ phase = "repo" /\ cur = GeneralInfo
    /\ reqs' = reqs \cup {Endpoint(GeneralInfo)}
    /\ pst' = "loop"
    /\ UNCHANGED << rows, files, clock, phase, i, ok, skipped, total, missing, cur,
                    st, written, snap0, outcome, lastRun, nEvents >>
    /\ UNCHANGED << fetcher, remote, page, out, reqlog, pfile, xvars >>

\* fetch_commits returned: the value is built with commits_count and
\* process_repo saves it
InfoSave ==
    /\ pst = "returned"
    /\ phase = "repo" /\ cur = GeneralInfo
    /\ save_snapshot_json(rows[i], GeneralInfo, "info", commits_count(out))
    /\ reqs' = reqs \cup {Endpoint(Commits)}
    /\ pst' = "saved"
    /\ Advance(GeneralInfo, missing)
    /\ UNCHANGED << rows, clock, i, ok, skipped, total, missing,
                    snap0, outcome, lastRun, nEvents >>
    /\ UNCHANGED << fetcher, remote, page, out, reqlog, pfile, xvars >>

InfoNext ==
    \/ InfoLookupFails
    \/ InfoLookupSucceeds
    \/ RequestPage
    \/ InfoSave

InfoSpec == InfoInit /\ [][InfoNext]_vars

(***************************************************************************)
(* ParseSpec: parse_owner_repo applied to one row of the input CSV, and    *)
(* the test process_csv makes on the pair.  The fields of a row are        *)
(* sequences of characters.                                                *)
(***************************************************************************)

\* a full_name field: ""
Name_Empty == << >>

\* a full_name field: "o1/r1"
Name_Pair == << "o", "1", "/", "r", "1" >>

\* a full_name field: " o1 / r1 "
Name_Spaced == << " ", "o", "1", " ", "/", " ", "r", "1", " " >>

\* a full_name field: "o1/"
Name_NoRepo == << "o", "1", "/" >>

\* a full_name field: "https://github.com/o1/r1"
Name_Url == << "h", "t", "t", "p", "s", ":", "/", "/", "g", "i", "t", "h", "u", "b", ".", "c", "o", "m", "/", "o", "1", "/", "r", "1" >>

\* a full_name field: "o1"
Name_NoSlash == << "o", "1" >>

\* a URL field: ""
Url_Empty == << >>

\* a URL field: "https://github.com/o1/r1"
Url_Repo == << "h", "t", "t", "p", "s", ":", "/", "/", "g", "i", "t", "h", "u", "b", ".", "c", "o", "m", "/", "o", "1", "/", "r", "1" >>

\* a URL field: "https://github.com/o1/r1/issues?q=1"
Url_Issues == << "h", "t", "t", "p", "s", ":", "/", "/", "g", "i", "t", "h", "u", "b", ".", "c", "o", "m", "/", "o", "1", "/", "r", "1", "/", "i", "s", "s", "u", "e", "s", "?", "q", "=", "1" >>

\* a URL field: "https://github.com/o1"
Url_Owner == << "h", "t", "t", "p", "s", ":", "/", "/", "g", "i", "t", "h", "u", "b", ".", "c", "o", "m", "/", "o", "1" >>

\* a URL field: "  "
Url_Blank == << " ", " " >>

\* a URL field: "https://github.com/o2/r2#readme"
Url_Fragment == << "h", "t", "t", "p", "s", ":", "/", "/", "g", "i", "t", "h", "u", "b", ".", "c", "o", "m", "/", "o", "2", "/", "r", "2", "#", "r", "e", "a", "d", "m", "e" >>

\* a URL field: "https://example.org/o2/r2"
Url_OtherHost == << "h", "t", "t", "p", "s", ":", "/", "/", "e", "x", "a", "m", "p", "l", "e", ".", "o", "r", "g", "/", "o", "2", "/", "r", "2" >>

FullNames == { Name_Empty, Name_Pair, Name_Spaced, Name_NoRepo, Name_Url, Name_NoSlash }

HtmlUrls == { Url_Empty, Url_Repo, Url_Issues, Url_Owner, Url_Blank }

Urls == { Url_Empty, Url_Fragment, Url_OtherHost }

\* the literal part of the pattern r"github\.com/([^/]+)/([^/#?]+)"
GithubPrefix == << "g", "i", "t", "h", "u", "b", ".", "c", "o", "m", "/" >>

RECURSIVE LStrip(_)
LStrip(s) == IF s # << >> /\ Head(s) = " " THEN LStrip(Tail(s)) ELSE s

RECURSIVE RStrip(_)
RStrip(s) ==
    IF s # << >> /\ s[Len(s)] = " " THEN RStrip(SubSeq(s, 1, Len(s) - 1)) ELSE s

\* str.strip
Strip(s) == RStrip(LStrip(s))

\* the first position at or behind `from` where s holds a character of
\* `stops`; Len(s) + 1 when there is none
NextStop(s, from, stops) ==
    LET at == { k \in from..Len(s) : s[k] \in stops }
    IN IF at = {} THEN Len(s) + 1 ELSE CHOOSE k \in at : \A j \in at : k <= j

\* s.split("/")[0] and s.split("/")[1], for s that holds a "/"
SplitFirst(s) == SubSeq(s, 1, NextStop(s, 1, {"/"}) - 1)

SplitSecond(s) ==
    LET p == NextStop(s, 1, {"/"})
    IN SubSeq(s, p + 1, NextStop(s, p + 1, {"/"}) - 1)

\* the pattern matches at position k of v: the literal, one or more
\* characters other than "/", a "/", one or more characters other than
\* "/", "#", "?"
MatchesAt(v, k) ==
    LET a == k + Len(GithubPrefix)
        slash == NextStop(v, a, {"/"})
    IN /\ k + Len(GithubPrefix) - 1 <= Len(v)
       /\ SubSeq(v, k, a - 1) = GithubPrefix
       /\ slash <= Len(v) /\ slash > a
       /\ NextStop(v, slash + 1, {"/", "#", "?"}) > slash + 1

\* re.search: the leftmost position the pattern matches at; 0 for no match
SearchGithub(v) ==
    LET at == { k \in 1..Len(v) : MatchesAt(v, k) }
    IN IF at = {} THEN 0 ELSE CHOOSE k \in at : \A j \in at : k <= j

\* m.group(1), m.group(2) of the match at position k
Group1(v, k) ==
    SubSeq(v, k + Len(GithubPrefix), NextStop(v, k + Len(GithubPrefix), {"/"}) - 1)

Group2(v, k) ==
    LET slash == NextStop(v, k + Len(GithubPrefix), {"/"})
    IN SubSeq(v, slash + 1, NextStop(v, slash + 1, {"/", "#", "?"}) - 1)

NoPair == [state |-> "none", owner |-> << >>, repo |-> << >>]

\* the loop over ("html_url", "url")
FromUrls(r) ==
    LET h == Strip(r.html_url)
        u == Strip(r.url)
    IN IF h # << >> /\ SearchGithub(h) > 0
       THEN [state |-> "pair", owner |-> Group1(h, SearchGithub(h)),
             repo |-> Group2(h, SearchGithub(h))]
       ELSE IF u # << >> /\ SearchGithub(u) > 0
       THEN [state |-> "pair", owner |-> Group1(u, SearchGithub(u)),
             repo |-> Group2(u, SearchGithub(u))]
       ELSE NoPair

\* parse_owner_repo(row)
parse_owner_repo(r) ==
    LET full_name == Strip(r.full_name)
    IN IF full_name # << >> /\ Contains(full_name, << "/" >>)
       THEN [state |-> "pair", owner |-> Strip(SplitFirst(full_name)),
             repo |-> Strip(SplitSecond(full_name))]
       ELSE FromUrls(r)

\* process_csv: `if not owner or not repo` skips the row
IsSkipped(p) == p.owner = << >> \/ p.repo = << >>

ParseInit ==
    /\ MainOff /\ PageOff /\ FetchOff /\ DeriveOff /\ TypeOff
    /\ row \in [full_name : FullNames, html_url : HtmlUrls, url : Urls]
    /\ parsed = [state |-> "pending", owner |-> << >>, repo |-> << >>]

\* one call of parse_owner_repo
Parse ==
    /\ parsed.state = "pending"
    /\ parsed' = parse_owner_repo(row)
    /\ UNCHANGED << row, mvars, pvars, fvars, dvars, tvars >>

ParseNext == Parse

ParseSpec == ParseInit /\ [][ParseNext]_vars

(***************************************************************************)
(* FetchSpec: one fetch of any of the three request loops (offset pages,   *)
(* cursor pages, the weekly poller) run to its end.  A loop that can take  *)
(* its next pass takes it: weak fairness on the steps.                     *)
(***************************************************************************)
FetchInit ==
    \/ PageInit
    \/ CursorInit
    \/ PollInit

FetchNext ==
    \/ (fetcher \in OffsetFetchers /\ PageNext)
    \/ (fetcher \in CursorFetchers /\ CursorNext)
    \/ (fetcher = "fetch_weekly_commit_activity" /\ PollNext)

FetchSpec == FetchInit /\ [][FetchNext]_vars /\ WF_vars(FetchNext)

(***************************************************************************)
(* Spec with the fairness the resumability claim needs: the program keeps  *)
(* taking steps, the operator re-runs the batch, and the remote answers    *)
(* with success once the environment events of the behaviour are used up.  *)
(***************************************************************************)
Program ==
    \/ StartBatch
    \/ SkipRow
    \/ Scan
    \/ GeneralInfoFetched
    \/ RawFetched
    \/ DeriveBlock
    \/ Return
    \/ Summary

LiveSpec == Init /\ [][Next]_vars /\ WF_vars(Program)

(***************************************************************************)
(* Properties of process_repo and process_csv.                             *)
(***************************************************************************)
InRepo == phase \in {"repo", "ret"}
CurRepo == rows[i]

\* C1 (as stated): whenever process_repo runs on a repository it has already
\* run on (however that run ended) and nothing changed in between, the missing
\* set is empty, no request is issued and every file stays as it was.
C1_IdempotentAfterAnyRun ==
    (InRepo /\ lastRun[CurRepo] \in {"Complete", "Failed", "Raised"})
        => (missing = {} /\ reqs = {} /\ files[CurRepo] = snap0)

\* C1 (amended): whenever process_repo runs on a repository whose previous run
\* ended Complete and nothing changed in between, the missing set is empty, it
\* goes to Complete at once, issues no request, writes no file and leaves every
\* snapshot file identical.
C1_Idempotence ==
    (InRepo /\ lastRun[CurRepo] = "Complete")
        => /\ missing = {}
           /\ st = "Complete" /\ phase = "ret"
           /\ reqs = {} /\ written = {}
           /\ files[CurRepo] = snap0

\* a second run over a repository the first run completed, at a later time
C1_Witness ==
    /\ phase = "ret" /\ lastRun[CurRepo] = "Complete"
    /\ missing = {} /\ reqs = {}
    /\ \E R \in Resources : files[CurRepo][R].fetched_at < clock

\* C2 (as stated): when exactly one resource R is missing, the run requests
\* only R's own endpoint, rewrites only R's file and leaves the 18 siblings
\* (content and fetched_at) unchanged.
C2_OnlyOwnEndpoint ==
    InRepo =>
        \A R \in Resources :
            missing = {R} =>
                /\ reqs \subseteq ({Endpoint(R)} \ {"none"})
                /\ written \subseteq {R}
                /\ \A S \in Resources \ {R} : files[CurRepo][S] = snap0[S]

\* C2 (amended): when exactly one resource R is missing, the run issues only
\* the requests of R's fetcher (for general_info: the repository lookup and the
\* whole commits pagination; for first_commits_by_author: none), rewrites no
\* file but R's and leaves the 18 siblings (content and fetched_at) unchanged.
C2_CompletenessGating ==
    InRepo =>
        \A R \in Resources :
            missing = {R} =>
                /\ reqs \subseteq FetcherRequests(R)
                /\ written \subseteq {R}
                /\ \A S \in Resources \ {R} : files[CurRepo][S] = snap0[S]
                /\ (st = "Complete" => written = {R})

\* general_info alone was missing and the run re-fetched it
C2_Witness ==
    /\ phase = "ret" /\ st = "Complete"
    /\ missing = {GeneralInfo} /\ written = {GeneralInfo}
    /\ snap0[Commits].content = "snapshot"
    /\ files[CurRepo][GeneralInfo].fetched_at > snap0[Commits].fetched_at

\* C3: in a batch of 3 parseable identifiers whose 2nd fails outright while
\* the 1st and 3rd complete, the tally at the summary has processed = 2 (the
\* failed repository is not counted as processed).
C3_BatchIsolation ==
    (/\ phase = "done" /\ Len(rows) = 3
     /\ \A n \in 1..3 : rows[n] # NoRepo
     /\ outcome[1] = "Complete"
     /\ outcome[2] \in {"Failed", "Raised"}
     /\ outcome[3] = "Complete")
        => (ok = 2 /\ total - ok - skipped = 1)

\* C4: when a fetcher other than general_info's fails (also by raising), every
\* other missing resource of the repository is written in the same run.
C4_BestEffort ==
    (phase = "ret" /\ st = "Raised" /\ cur # GeneralInfo)
        => (missing \ {cur}) \subseteq written

\* C5: no file is ever observable empty or as a strict prefix of an envelope.
C5_AtomicWrite ==
    \A r \in Repos, R \in Resources :
        files[r][R].content \notin {"empty", "partial"}

\* C6, the part about the files a run finds: a complete snapshot is not in the
\* missing set and is not rewritten; an empty or unparsable file is in it.
C6_ScanRespectsFiles ==
    InRepo =>
        \A R \in Resources :
            /\ snap0[R].content = "snapshot"
                   => (R \notin missing /\ files[CurRepo][R] = snap0[R])
            /\ snap0[R].content \in {"empty", "partial", "corrupt"}
                   => R \in missing

AllComplete ==
    \A n \in 1..Len(rows) :
        rows[n] # NoRepo => get_missing(files[rows[n]]) = {}

\* C6: across interruptions and re-runs, a run keeps (does not re-fetch) every
\* complete snapshot it finds, treats every empty or unparsable file as
\* missing, and re-running eventually leaves every repository of the batch
\* complete for good.
C6_Resumable == [](C6_ScanRespectsFiles) /\ <>[]AllComplete

\* a run that resumed after an interruption: it found a torn file and complete
\* ones, kept the complete ones and completed the repository
C6_Witness ==
    /\ phase = "ret" /\ st = "Complete"
    /\ \E R \in Resources :
        /\ snap0[R].content \in {"empty", "partial"}
        /\ files[CurRepo][R].content = "snapshot"
    /\ \E S \in Resources :
        /\ snap0[S].content = "snapshot"
        /\ files[CurRepo][S] = snap0[S]

\* C7, state part: a run that reached Failed stopped in the general_info block,
\* wrote nothing and requested nothing but the repository lookup.
C7_FailedWritesNothing ==
    (phase = "ret" /\ st = "Failed")
        => /\ cur = GeneralInfo
           /\ written = {}
           /\ files[CurRepo] = snap0
           /\ reqs = {Endpoint(GeneralInfo)}

\* C7: when the repository lookup fails the run is Failed, has written no
\* snapshot and issued no request but the lookup, and the next step of the
\* batch is the next row, with the files untouched.
C7_Unreachable ==
    /\ [](C7_FailedWritesNothing)
    /\ [][(phase = "ret" /\ st = "Failed")
            => (phase' = "loop" /\ i' = i + 1 /\ files' = files)]_vars

\* the lookup of a repository with no file on disk has just failed
C7_Witness ==
    /\ phase = "ret" /\ st = "Failed"
    /\ missing = Resources
    /\ i < total

\* C8: when process_repo ends without Failed and without raising, get_missing
\* on the repository's directory returns the empty list.
C8_CompleteMeansComplete ==
    (phase = "ret" /\ st = "Complete") => get_missing(files[CurRepo]) = {}

\* a run that started from an empty directory ended Complete
C8_Witness ==
    /\ phase = "ret" /\ st = "Complete"
    /\ missing = Resources
    /\ written = Resources

(***************************************************************************)
(* Properties of the offset-paginated fetchers (PageSpec).                 *)
(***************************************************************************)
PageDone == pst \in {"returned", "saved"}

IsFullPage(resp) ==
    resp.status = 200 /\ resp.kind = "list" /\ resp.items # << >>

RECURSIVE RecordsOfPages(_)
\* the normalized records of pages 1..n of the remote, in order
RecordsOfPages(n) ==
    IF n = 0 THEN << >>
    ELSE RecordsOfPages(n - 1) \o Normalize(fetcher, remote[n].items)

\* C9: given the pages [n1, n2, empty] (n1, n2 non-empty lists) the fetcher
\* returns the normalized records of n1 followed by those of n2 and has made
\* exactly 3 requests, for pages 1, 2 and 3.
C9_PaginationTermination ==
    (/\ PageDone
     /\ Len(remote) = 3
     /\ IsFullPage(remote[1]) /\ IsFullPage(remote[2])
     /\ remote[3] = [status |-> 200, kind |-> "list", items |-> << >>])
        => /\ out = Normalize(fetcher, remote[1].items)
                        \o Normalize(fetcher, remote[2].items)
           /\ reqlog = << 1, 2, 3 >>

\* a fetch over [n1, n2, empty] that returned records of both pages
C9_Witness ==
    /\ PageDone
    /\ Len(remote) = 3
    /\ IsFullPage(remote[1]) /\ IsFullPage(remote[2])
    /\ remote[3] = [status |-> 200, kind |-> "list", items |-> << >>]
    /\ remote[1].items # remote[2].items
    /\ Len(out) >= 2
    /\ Len(reqlog) = 3

\* the first page of the remote whose response is a non-success status, when
\* every page before it is a non-empty list; 0 when there is none
FailingPage ==
    LET cand == { n \in 1..Len(remote) :
                    /\ remote[n].status # 200
                    /\ \A m \in 1..(n - 1) : IsFullPage(remote[m]) }
    IN IF cand = {} THEN 0 ELSE CHOOSE n \in cand : TRUE

\* C10: when page N gets a non-success status after pages 1..N-1 succeeded,
\* the fetcher stops there (requests for pages 1..N and no other), returns
\* exactly the records of pages 1..N-1, and the block then saves them as a
\* complete snapshot.
C10_StopsOnFailure ==
    (FailingPage > 0)
        => /\ Len(reqlog) <= FailingPage
           /\ \A n \in 1..Len(reqlog) : reqlog[n] = n
           /\ PageDone =>
                /\ Len(reqlog) = FailingPage
                /\ out = RecordsOfPages(FailingPage - 1)
           /\ pst = "saved" =>
                /\ pfile.content = "snapshot"
                /\ pfile.data = RecordsOfPages(FailingPage - 1)

\* page 3 failed after two pages of records, and the truncated list was saved
C10_Witness ==
    /\ FailingPage = 3
    /\ pst = "saved"
    /\ Len(out) >= 2
    /\ pfile.content = "snapshot" /\ pfile.data = out

(***************************************************************************)
(* Properties of the cursor-paginated fetchers (CursorSpec).               *)
(***************************************************************************)
GqlSucceeds(resp) == resp.status = 200 /\ ~resp.errors

RECURSIVE EdgesRead(_)
\* the normalized edges of the successful ones among the first n responses
EdgesRead(n) ==
    IF n = 0 THEN << >>
    ELSE EdgesRead(n - 1) \o
         (IF GqlSucceeds(remote[reqlog[n]])
          THEN NormalizeEdges(fetcher, remote[reqlog[n]].edges) ELSE << >>)

\* C11: the first query carries after = null and every later one the
\* endCursor of the response before it; the fetcher goes on exactly while the
\* response succeeded with hasNextPage true, stops at the first response that
\* failed (non-200 or errors) or has hasNextPage false, and what it holds or
\* returns is the normalized edges of the successfully read pages, in order.
C11_CursorProtocol ==
    /\ reqlog # << >> => reqlog[1] = "null"
    /\ \A n \in 2..Len(reqlog) :
          /\ reqlog[n] = remote[reqlog[n - 1]].endCursor
          /\ GqlSucceeds(remote[reqlog[n - 1]])
          /\ remote[reqlog[n - 1]].hasNextPage
    /\ out = EdgesRead(Len(reqlog))
    /\ reqlog # << >> =>
          LET last == remote[reqlog[Len(reqlog)]]
          IN (pst = "returned") <=> (~GqlSucceeds(last) \/ ~last.hasNextPage)
    /\ pst \in {"loop", "returned"}

\* two pages read at different cursors, then a failed third request
C11_Witness ==
    /\ pst = "returned"
    /\ Len(reqlog) = 3
    /\ reqlog[2] # reqlog[3]
    /\ ~GqlSucceeds(remote[reqlog[3]])
    /\ Len(out) >= 2

(***************************************************************************)
(* Properties of the asynchronous poller (PollSpec).                       *)
(***************************************************************************)
PollReturned == pst \in {"returned", "saved"}

\* the waits of `delay` seconds among the sleeps made so far
DelaySleeps == { k \in 1..Len(sleeps) : sleeps[k] = "delay" }

ComputingTwiceThenSuccess ==
    /\ retries >= 3
    /\ remote[1].status = 202 /\ remote[2].status = 202
    /\ remote[3].status = 200

\* C12: answered 202, 202, 200 with a retry bound of at least 3, the poller
\* returns the payload with each week turned into its calendar date, has made
\* exactly 3 requests and has waited `delay` exactly twice, once behind each
\* 202 (next to the REQUEST_SLEEP pause in front of each request).
C12_PollSuccessPath ==
    (ComputingTwiceThenSuccess /\ PollReturned) =>
        /\ Len(reqlog) = 3
        /\ Len(out) = Len(remote[3].items)
        /\ \A k \in 1..Len(out) :
              /\ out[k].total = remote[3].items[k].total
              /\ out[k].week = WeekDate(remote[3].items[k].week)
        /\ Cardinality(DelaySleeps) = 2
        /\ sleeps = << "REQUEST_SLEEP", "delay", "REQUEST_SLEEP", "delay",
                       "REQUEST_SLEEP" >>

C12_Witness ==
    /\ ComputingTwiceThenSuccess /\ PollReturned
    /\ Len(out) = 2
    /\ out[2].week = "1970-01-08"

\* every answer within the retry bound is 202
AlwaysComputing == \A k \in 1..retries : remote[k].status = 202

\* the k-th answer is the first that is not 202, and it is not 200 either
OtherStatusAt(k) ==
    /\ k <= retries
    /\ remote[k].status \notin {200, 202}
    /\ \A j \in 1..(k - 1) : remote[j].status = 202

\* C13: when every answer within the retry bound is 202 the poller makes
\* exactly `retries` requests and returns the empty list; at an answer that
\* is neither 200 nor 202 it stops with that request and returns the empty
\* list; process_repo then saves the empty list as the
\* weekly_commit_activity snapshot, never fails, and returns only after every
\* block behind it that was missing has been written.
C13_PollDegrades ==
    /\ st \notin {"Failed", "Raised"}
    /\ (PollReturned /\ AlwaysComputing) =>
          Len(reqlog) = retries /\ out = << >>
    /\ \A k \in 1..MaxRetries :
          (PollReturned /\ OtherStatusAt(k)) => Len(reqlog) = k /\ out = << >>
    /\ (pst = "saved" /\ (AlwaysComputing \/ \E k \in 1..MaxRetries : OtherStatusAt(k))) =>
          /\ files["o1/r1"][Weekly].content = "snapshot"
          /\ files["o1/r1"][Weekly].body = "[]"
          /\ pfile.data = << >>
    /\ phase = "ret" =>
          /\ pst = "saved"
          /\ st = "Complete"
          /\ missing \subseteq written
          /\ get_missing(files["o1/r1"]) = {}

\* retries exhausted on 202 answers, the snapshot saved, and the blocks
\* behind it (maintainers, owner_info, the derivation) written afterwards
C13_Witness ==
    /\ AlwaysComputing /\ retries >= 2
    /\ phase = "ret"
    /\ {"maintainers.json", "owner_info.json", FirstCommits} \subseteq written
    /\ files["o1/r1"][Weekly].body = "[]"

\* an answer that is neither 200 nor 202 ended the poll before the bound
C13_WitnessOtherStatus ==
    /\ OtherStatusAt(2) /\ retries >= 3
    /\ pst = "saved" /\ Len(reqlog) = 2

(***************************************************************************)
(* Properties of the commit classification (TypeSpec).                     *)
(***************************************************************************)
Classified == commit_type # "none"

\* the message of the state matches a keyword of the set
MessageMatches(kws) ==
    AnyKeyword(Lower(IF message = Msg_None THEN << >> ELSE message), kws)

MessageMatchesAny ==
    \/ MessageMatches(CI_KEYWORDS) \/ MessageMatches(DOCS_KEYWORDS)
    \/ MessageMatches(TEST_KEYWORDS) \/ MessageMatches(CONFIG_KEYWORDS)

\* the label of the first keyword set, in the order ci, docs, test, config,
\* that the message matches
MessageLabel ==
    IF MessageMatches(CI_KEYWORDS) THEN "ci"
    ELSE IF MessageMatches(DOCS_KEYWORDS) THEN "docs"
    ELSE IF MessageMatches(TEST_KEYWORDS) THEN "test"
    ELSE "config"

\* C15: the keyword sets are tried on the message in the order ci, docs,
\* test, config and the first that matches gives the label; the message
\* "docs: update ci workflow" matches a ci and a docs keyword and is "ci".
C15_KeywordPriority ==
    Classified =>
        /\ MessageMatches(CI_KEYWORDS) => commit_type = "ci"
        /\ (~MessageMatches(CI_KEYWORDS) /\ MessageMatches(DOCS_KEYWORDS)) =>
              commit_type = "docs"
        /\ (~MessageMatches(CI_KEYWORDS) /\ ~MessageMatches(DOCS_KEYWORDS)
            /\ MessageMatches(TEST_KEYWORDS)) => commit_type = "test"
        /\ (~MessageMatches(CI_KEYWORDS) /\ ~MessageMatches(DOCS_KEYWORDS)
            /\ ~MessageMatches(TEST_KEYWORDS) /\ MessageMatches(CONFIG_KEYWORDS)) =>
              commit_type = "config"
        /\ message = Msg_DocsCiWorkflow =>
              /\ MessageMatches(CI_KEYWORDS) /\ MessageMatches(DOCS_KEYWORDS)
              /\ commit_type = "ci"

C15_Witness ==
    /\ Classified
    /\ message = Msg_DocsCiWorkflow
    /\ commit_type = "ci"

\* C16: when the message matches a keyword set the label is the one the
\* message gives, whatever the changed files are; the changed files decide
\* only when no keyword matches.
C16_MessageDominatesFiles ==
    Classified =>
        IF MessageMatchesAny
        THEN commit_type = MessageLabel
        ELSE commit_type = FilesLabel(files_changed)

\* a config message on a commit whose first file is a doc file
C16_Witness ==
    /\ Classified
    /\ message = Msg_Requirements
    /\ files_changed # << >> /\ files_changed[1] = File_Readme
    /\ FilesLabel(files_changed) = "docs"
    /\ commit_type = "config"

(***************************************************************************)
(* Properties of the derivation (DeriveSpec).                              *)
(***************************************************************************)
Derived == pst = "saved"

\* the author identities of the commits: the login, else the author name
Identities ==
    { AuthorOf(commits[k]) : k \in 1..Len(commits) } \ {"null"}

\* the positions of the commits of identity a
CommitsOfIdentity(a) == { k \in 1..Len(commits) : AuthorOf(commits[k]) = a }

\* one record per identity, each record a commit of its identity
OneRecordPerIdentity ==
    /\ { first_commits[n].author : n \in 1..Len(first_commits) } = Identities
    /\ \A m, n \in 1..Len(first_commits) :
          first_commits[m].author = first_commits[n].author => m = n
    /\ \A n \in 1..Len(first_commits) :
          /\ first_commits[n].sha \in CommitsOfIdentity(first_commits[n].author)
          /\ first_commits[n].date = commits[first_commits[n].sha].date

\* no dated commit of the record's identity is older than the record
HasSmallestDate(rec) ==
    \A k \in CommitsOfIdentity(rec.author) :
        commits[k].date # "null" =>
            /\ rec.date # "null"
            /\ DateRank(rec.date) <= DateRank(commits[k].date)

\* one of several commits of identity a has no date
HasUndatedAmongSeveral(a) ==
    /\ Cardinality(CommitsOfIdentity(a)) >= 2
    /\ \E k \in CommitsOfIdentity(a) : commits[k].date = "null"

\* the commits (a, 2020-02-01), (a, 2020-01-01), (b, 2020-03-01)
IsExampleCommits ==
    /\ Len(commits) = 3
    /\ commits[1].author_login = "a" /\ commits[1].date = "2020-02-01"
    /\ commits[2].author_login = "a" /\ commits[2].date = "2020-01-01"
    /\ commits[3].author_login = "b" /\ commits[3].date = "2020-03-01"

\* C14 as stated: for every commits list there is exactly one record per
\* author identity and it is the commit with the smallest date among the
\* commits of that identity.
C14_SmallestDateAlways ==
    Derived =>
        /\ OneRecordPerIdentity
        /\ \A n \in 1..Len(first_commits) : HasSmallestDate(first_commits[n])

\* C14: there is exactly one record per author identity (login, else author
\* name); when every commit of the identity has a date, or it has a single
\* commit, the record is its commit with the smallest date, the first
\* fetched among equal dates; when one of several commits of the identity has
\* no date, the record is the identity's first commit in fetch order.  The
\* commits (a, 2020-02-01), (a, 2020-01-01), (b, 2020-03-01) give two
\* records, a dated 2020-01-01 and b dated 2020-03-01.
C14_DerivationCorrect ==
    Derived =>
        /\ OneRecordPerIdentity
        /\ \A n \in 1..Len(first_commits) :
              LET rec == first_commits[n]
                  mine == CommitsOfIdentity(rec.author)
              IN IF HasUndatedAmongSeveral(rec.author)
                 THEN \A k \in mine : rec.sha <= k
                 ELSE /\ HasSmallestDate(rec)
                      /\ \A k \in mine : commits[k].date = rec.date => rec.sha <= k
        /\ IsExampleCommits =>
              /\ Len(first_commits) = 2
              /\ first_commits[1].author = "a"
              /\ first_commits[1].date = "2020-01-01"
              /\ first_commits[2].author = "b"
              /\ first_commits[2].date = "2020-03-01"

\* the example of the claim, derived
C14_Witness ==
    /\ Derived /\ IsExampleCommits
    /\ Len(first_commits) = 2
    /\ first_commits[1].sha = 2

(***************************************************************************)
(* Properties of the loop of process_csv (Spec).                           *)
(***************************************************************************)
\* the loop stands at a row from which no (owner, name) pair is extracted
AtUnparsableRow == phase = "loop" /\ i <= total /\ rows[i] = NoRepo

\* the process is killed from outside
Killed == phase' = "killed"

\* C17: at a row from which no (owner, name) pair is extracted, process_csv
\* adds one to skipped and goes to the next row: process_repo is not entered
\* for the row, no request is made, no file is touched and the batch goes on.
C17_SkipsUnparsableRows ==
    [][ AtUnparsableRow =>
          \/ Killed
          \/ /\ skipped' = skipped + 1
             /\ i' = i + 1
             /\ phase' = "loop"
             /\ outcome'[i] = "Skipped"
             /\ ok' = ok /\ reqs' = reqs /\ files' = files /\ written' = written
      ]_vars

\* the unparsable first row was counted and the second row is in process_repo
C17_Witness ==
    /\ rows[1] = NoRepo
    /\ skipped = 1 /\ outcome[1] = "Skipped"
    /\ i = 2 /\ phase = "repo" /\ ok = 0

\* process_repo is entered
Invoked == phase = "loop" /\ phase' \in {"repo", "ret"}

\* C18: process_repo is entered for the parseable rows in input order, one
\* row at a time and at most once per row of a run: at each entry the rows
\* before have all been dealt with and the row itself and the rows after
\* have not; whatever the result (failed and raised included) the loop goes
\* to the next row; and the summary is reached with the index one past the
\* last row, every row dealt with once.
C18_OnePassInOrder ==
    [][ /\ Invoked =>
            /\ i' = i
            /\ rows[i] # NoRepo
            /\ \A k \in 1..total : (outcome[k] = "none") <=> (k >= i)
        /\ (phase = "ret" /\ ~Killed) =>
            /\ i' = i + 1 /\ phase' = "loop"
            /\ outcome'[i] = st
        /\ (phase \in {"loop", "repo", "ret"} /\ phase' \in {"loop", "repo", "ret"}) =>
            i' \in {i, i + 1}
        /\ (phase = "loop" /\ phase' = "done") =>
            /\ i = total + 1
            /\ \A k \in 1..total : outcome[k] # "none"
      ]_vars

\* the summary of a run of three rows whose first repository failed
C18_Witness ==
    /\ phase = "done" /\ total = 3
    /\ outcome[1] = "Failed"
    /\ outcome[2] = "Complete" /\ outcome[3] = "Complete"
    /\ i = 4

(***************************************************************************)
(* Properties of get_missing (ScanSpec).                                   *)
(***************************************************************************)
FileExists(f) == f.content # "absent"

FileNonEmpty(f) == f.content # "empty"

\* the bytes of the file are a well-formed JSON text
FileParses(f) == f.content \notin {"absent", "empty", "partial", "corrupt"}

\* C19: get_missing leaves a resource out of its result exactly when the
\* file of the resource exists, is not empty and parses as JSON; absent,
\* empty and unparsable files are in the result; the call ends with a
\* result and changes no file.
C19_ExistsAndValid ==
    [][ (phase = "loop" /\ phase' # "loop") =>
          /\ files' = files
          /\ st' \in {"Complete", "FetchingRequired", "Derived"}
          /\ \A R \in Resources :
                LET f == files["o1/r1"][R]
                IN /\ (R \notin missing') <=>
                         (FileExists(f) /\ FileNonEmpty(f) /\ FileParses(f))
                   /\ f \in {Absent, Empty, Partial, Corrupt} => R \in missing'
      ]_vars

\* a directory with a truncated file and a JSON file that is no envelope,
\* scanned
C19_Witness ==
    /\ phase # "loop"
    /\ \E R, Q \in Resources :
          /\ files["o1/r1"][R] = OtherJson /\ R \notin missing
          /\ files["o1/r1"][Q] = Partial /\ Q \in missing
    /\ Cardinality(missing) = 1

(***************************************************************************)
(* Properties of the content-probe fetchers (ProbeSpec).                   *)
(***************************************************************************)
\* the remote answers candidate k with a file object that has a download_url
CandidateResolves(k) ==
    /\ remote[k].status = 200 /\ remote[k].kind = "dict"
    /\ remote[k].items # << >>
    /\ remote[k].items[1].download_url # "null"

NoneResolves == \A k \in 1..Len(remote) : ~CandidateResolves(k)

\* the first candidate that resolves
FirstResolved ==
    CHOOSE k \in 1..Len(remote) :
        CandidateResolves(k) /\ \A j \in 1..(k - 1) : ~CandidateResolves(j)

\* the candidates are requested in the listed order up to the first that
\* resolves, which is returned
StopsAtFirstResolved ==
    ~NoneResolves =>
        /\ SubSeq(reqlog, 1, FirstResolved) = SubSeq(Candidates(fetcher), 1, FirstResolved)
        /\ \A n \in (FirstResolved + 1)..Len(reqlog) :
              \A k \in 1..Len(remote) : reqlog[n] # Candidates(fetcher)[k]
        /\ out.found
        /\ out.path = Candidates(fetcher)[FirstResolved]
        /\ out.download_url = "raw-url"

SavedAsSnapshot ==
    pst = "saved" => (pfile.content = "snapshot" /\ pfile.data = out)

\* C20 as stated: whenever no candidate resolves, every candidate has been
\* requested in order and the fixed not-found value is returned.
C20_NotFoundWhenNoneResolves ==
    PageDone =>
        /\ StopsAtFirstResolved
        /\ NoneResolves =>
              /\ SubSeq(reqlog, 1, Len(remote)) = Candidates(fetcher)
              /\ out = ProbeNotFound(fetcher)
        /\ SavedAsSnapshot

\* C20: the candidates are requested in the listed order up to the first
\* that resolves, which is returned with no request for a later candidate
\* (fetch_code_of_conduct then requests the raw content once for the
\* preview).  When none resolves, fetch_contributing and
\* fetch_code_of_conduct return the not-found value after one request per
\* candidate; fetch_pr_template requests the path of its last candidate once
\* more and returns the template directory as found when that listing is not
\* empty, the not-found value otherwise.  The value is saved as a snapshot.
C20_CandidateProbing ==
    PageDone =>
        /\ StopsAtFirstResolved
        /\ ~NoneResolves =>
              reqlog = SubSeq(Candidates(fetcher), 1, FirstResolved) \o
                          (IF fetcher = "fetch_code_of_conduct"
                           THEN << "raw-url" >> ELSE << >>)
        /\ (NoneResolves /\ fetcher # "fetch_pr_template") =>
              /\ reqlog = Candidates(fetcher)
              /\ out = ProbeNotFound(fetcher)
        /\ (NoneResolves /\ fetcher = "fetch_pr_template") =>
              /\ reqlog = Candidates(fetcher) \o << TemplateDir >>
              /\ IF remote[Len(remote)].kind = "list" /\ remote[Len(remote)].items # << >>
                 THEN /\ out.found /\ out.path = ".github/PULL_REQUEST_TEMPLATE/"
                      /\ out.download_url = "null"
                 ELSE out = ProbeNotFound(fetcher)
        /\ SavedAsSnapshot

\* the third candidate is the first that resolves although a later one
\* would too, and the value was saved
C20_Witness ==
    /\ pst = "saved"
    /\ ~CandidateResolves(1) /\ ~CandidateResolves(2)
    /\ CandidateResolves(3) /\ CandidateResolves(4)
    /\ out.path = Candidates(fetcher)[3]
    /\ Len(reqlog) = 3

\* no candidate resolves and the not-found value was saved
C20_WitnessNotFound ==
    /\ pst = "saved" /\ NoneResolves
    /\ pfile.data = ProbeNotFound(fetcher)
    /\ fetcher = "fetch_contributing"

(***************************************************************************)
(* Properties of the snapshot timestamps (Spec).                           *)
(***************************************************************************)
\* the file of resource R of repository r is a snapshot written in this step
NewlyWritten(r, R) ==
    /\ files'[r][R] # files[r][R]
    /\ files'[r][R].content = "snapshot"

EndPage ==
    CHOOSE n \in 1..(Len(remote) + 1) :
        /\ ~IsFullPage(ResponseAt(n))
        /\ \A m \in 1..(n - 1) : IsFullPage(ResponseAt(m))

InfoValue == files["o1/r1"][GeneralInfo]

\* C22: when fetch_repo_general_info has returned a value, the commits
\* pagination has run to its end (pages 1, 2, ... up to the first that is not
\* a non-empty list) and commits_count is the number of records it
\* accumulated; when the repository lookup failed, no commits request was
\* made and no value was returned.
C22_InfoAfterCommits ==
    /\ InfoValue.content = "snapshot" =>
          /\ pst = "saved"
          /\ reqlog = [n \in 1..EndPage |-> n]
          /\ out = RecordsOfPages(EndPage - 1)
          /\ InfoValue.count = Len(out)
          /\ reqs = {Endpoint(GeneralInfo), Endpoint(Commits)}
    /\ st = "Failed" =>
          /\ reqlog = << >> /\ out = << >>
          /\ reqs = {Endpoint(GeneralInfo)}
          /\ InfoValue = Absent
    /\ pst \in {"loop", "returned"} => InfoValue = Absent

\* a value returned after two pages of commits and the request that ended
\* the pagination
C22_Witness ==
    /\ InfoValue.content = "snapshot"
    /\ Len(reqlog) = 3
    /\ InfoValue.count >= 2

\* the lookup failed
C22_WitnessLookupFailed == st = "Failed" /\ phase = "ret" /\ reqlog = << >>

\* the identity the grouping is to give a commit: the login, else the
\* author name, else "unknown"
GroupKey(c) ==
    IF c.author_login # "null" THEN c.author_login
    ELSE IF c.author # "null" THEN c.author ELSE "unknown"

\* C23: every commit is in exactly one author group, keyed by the login,
\* else the author name, else "unknown": the derived list has exactly one
\* record under the key of each commit, so no commit is dropped.
C23_GroupingTotal ==
    Derived =>
        \A k \in 1..Len(commits) :
            Cardinality({ n \in 1..Len(first_commits) :
                            first_commits[n].author = GroupKey(commits[k]) }) = 1

\* the labels whose file rule a changed file meets: a doc extension, a test
\* pattern in the path, a config-like extension, a path rooted at .github/ or
\* starting with docker
FileLabels(f) ==
    LET name == Lower(f)
    IN (IF EndsWithAny(name, DOC_SUFFIXES) THEN {"docs"} ELSE {}) \cup
       (IF AnyKeyword(name, TEST_SUFFIXES) THEN {"test"} ELSE {}) \cup
       (IF EndsWithAny(name, CONFIG_SUFFIXES) THEN {"config"} ELSE {}) \cup
       (IF StartsWith(name, CI_PREFIXES[1]) \/ StartsWith(name, CI_PREFIXES[2])
        THEN {"ci"} ELSE {})

\* C24: when no message keyword matches, the label is one that a changed
\* file gives by its rule (docs, test, config or ci), and it is "code" only
\* when no changed file meets any rule or the list is empty.
C24_FileFallback ==
    (Classified /\ ~MessageMatchesAny) =>
        LET given == UNION { FileLabels(files_changed[k]) : k \in 1..Len(files_changed) }
        IN IF given = {} THEN commit_type = "code" ELSE commit_type \in given

\* the date of a commit is missing or not an ISO-8601 date
BadDate(d) == d \in {"null", "01/02/2020"}

\* a commit of identity a has a missing or malformed date
HasBadDate(a) == \E k \in CommitsOfIdentity(a) : BadDate(commits[k].date)

\* C25: for every author group the record is the commit with the smallest
\* ISO-8601 date string; when dates of the group are malformed or missing
\* the record is the first commit of the group in fetch order; the
\* derivation ends with a list in every case.
C25_BadDatesFallBack ==
    Derived =>
        \A n \in 1..Len(first_commits) :
            LET rec == first_commits[n]
            IN IF HasBadDate(rec.author)
               THEN \A k \in CommitsOfIdentity(rec.author) : rec.sha <= k
               ELSE HasSmallestDate(rec)

(***************************************************************************)
(* Properties of parse_owner_repo (ParseSpec).                             *)
(***************************************************************************)
Parsed == parsed.state \in {"pair", "none"}

\* the field holds owner/name: one "/" with a non-empty text on each side
CarriesCombined(s) ==
    LET t == Strip(s)
        p == NextStop(t, 1, {"/"})
    IN /\ p <= Len(t)
       /\ NextStop(t, p + 1, {"/"}) = Len(t) + 1
       /\ Strip(SubSeq(t, 1, p - 1)) # << >>
       /\ Strip(SubSeq(t, p + 1, Len(t))) # << >>

\* the field holds a URL with github.com/owner/name in it
CarriesUrl(s) == SearchGithub(Strip(s)) > 0

\* C26: for every row that carries an owner/name pair in full_name or in a
\* URL field (html_url, then url), parse_owner_repo returns a pair of two
\* non-empty texts, the pair of full_name when full_name carries one; so a
\* row is skipped only when none of its fields carries a pair.
C26_ExtractsPair ==
    Parsed =>
        /\ (CarriesCombined(row.full_name) \/ CarriesUrl(row.html_url)
            \/ CarriesUrl(row.url)) => ~IsSkipped(parsed)
        /\ CarriesCombined(row.full_name) =>
              /\ parsed.owner = Strip(SplitFirst(Strip(row.full_name)))
              /\ parsed.repo = Strip(SplitSecond(Strip(row.full_name)))

(***************************************************************************)
(* Properties that relate snapshots of one repository (Spec).              *)
(***************************************************************************)
\* C27: when an invocation of process_repo has written general_info.json
\* and commits.json, the commits_count in general_info equals the number of
\* records in commits.json.
C27_CountAgreesWithCommits ==
    (InRepo /\ {GeneralInfo, Commits} \subseteq written) =>
        files[CurRepo][GeneralInfo].count = files[CurRepo][Commits].count

\* C28: whenever commits.json and first_commits_by_author.json of a
\* repository are both valid, the derived file is the derivation of the
\* current commits.json (it has its number of commits); and an invocation
\* that has fetched commits.json again has also derived
\* first_commits_by_author.json again when it returns complete.
C28_DerivedFollowsSource ==
    /\ \A r \in Repos :
          (load_json_ok(files[r][Commits]) /\ load_json_ok(files[r][FirstCommits])) =>
              files[r][FirstCommits].count = files[r][Commits].count
    /\ (phase = "ret" /\ st = "Complete" /\ Commits \in written) =>
          FirstCommits \in written

(***************************************************************************)
(* Properties of the tally of process_csv (Spec).                          *)
(***************************************************************************)
\* the rows of the run whose outcome is one of `kinds`
RowsWith(kinds) == { k \in 1..total : outcome[k] \in kinds }

\* C29: at the summary, processed + skipped <= total_rows; processed counts
\* the rows whose invocation of process_repo returned, skipped the rows
\* without a pair, no row is in both; total_rows - processed - skipped is the
\* number of rows whose invocation raised, so the sum equals total_rows
\* exactly when none raised.
C29_TallyAccounting ==
    phase = "done" =>
        /\ ok + skipped <= total
        /\ ok = Cardinality(RowsWith({"Complete", "Failed"}))
        /\ skipped = Cardinality(RowsWith({"Skipped"}))
        /\ total - ok - skipped = Cardinality(RowsWith({"Raised"}))
        /\ (ok + skipped = total) <=> (RowsWith({"Raised"}) = {})

\* a summary after a run with a skipped row and a row whose invocation raised
C29_Witness ==
    /\ phase = "done"
    /\ total = 2 /\ skipped = 1 /\ ok = 0
    /\ outcome[2] = "Raised"

(***************************************************************************)
(* Termination of the request loops (FetchSpec).                           *)
(***************************************************************************)
\* the cursor chain from c comes, within n queries, to an answer that ends
\* the loop: a failed query or hasNextPage = false
RECURSIVE ChainEnds(_, _)
ChainEnds(c, n) ==
    IF n = 0 THEN FALSE
    ELSE \/ remote[c].status # 200
         \/ remote[c].errors
         \/ ~remote[c].hasNextPage
         \/ ChainEnds(remote[c].endCursor, n - 1)

\* the remote eventually ends the fetch: always for offset pages here (past
\* the given pages the remote answers an empty list), for cursors when the
\* chain from null is not a cycle of hasNextPage = true answers
RemoteEnds ==
    fetcher \in CursorFetchers => ChainEnds("null", Cardinality(Cursors))

\* the answer to the last request made was a page that asks for another one
LastAsksForMore ==
    /\ reqlog # << >>
    /\ IF fetcher \in OffsetFetchers
       THEN IsFullPage(ResponseAt(Len(reqlog)))
       ELSE LET last == remote[reqlog[Len(reqlog)]]
            IN last.status = 200 /\ ~last.errors /\ last.hasNextPage

\* C30: a paginated fetch whose remote eventually answers an empty page, a
\* failure or hasNextPage = false returns; the offset fetchers request the
\* pages 1, 2, 3, ... once each; neither loop stops while the last answer
\* asks for more, whatever the number of requests made; the poller makes at
\* most `retries` requests and returns whatever the remote answers.
C30_FetchTermination ==
    /\ [](fetcher \in OffsetFetchers => reqlog = [n \in 1..Len(reqlog) |-> n])
    /\ [](fetcher \in OffsetFetchers \cup CursorFetchers =>
             (LastAsksForMore => pst = "loop"))
    /\ [](fetcher = "fetch_weekly_commit_activity" => Len(reqlog) <= retries)
    /\ (RemoteEnds => <>(pst # "loop"))

\* an offset fetch that returned after one request more than the pages given
C30_Witness ==
    /\ fetcher \in OffsetFetchers /\ pst = "returned"
    /\ Len(remote) = MaxPages /\ Len(reqlog) = MaxPages + 1

\* a cursor fetch that returned at its third query
C30_WitnessCursor ==
    /\ fetcher \in CursorFetchers /\ pst = "returned"
    /\ RemoteEnds /\ Len(reqlog) = Cardinality(Cursors)

\* a poller that returned after `retries` answers of 202
C30_WitnessPoll ==
    /\ fetcher = "fetch_weekly_commit_activity" /\ pst = "returned"
    /\ retries = MaxRetries /\ Len(reqlog) = retries
    /\ \A n \in 1..retries : remote[n].status = 202

====
